---------------------------- MODULE Spec2Model ----------------------------
(***************************************************************************)
(* A model of twitter-stream: the OAuth 1.0a signer (query_builder.rs),    *)
(* the request builder and the connection future / line stream (lib.rs).   *)
(* Texts are sequences of bytes (0..255); a Rust &str is the sequence of   *)
(* its UTF-8 bytes.                                                        *)
(***************************************************************************)
EXTENDS Integers, Sequences, FiniteSets, TLC

(***************************************************************************)
(* Text helpers                                                            *)
(***************************************************************************)

\* Concatenation of a sequence of texts (what successive write! calls give).
RECURSIVE Cat(_)
Cat(ss) ==
  IF ss = <<>> THEN <<>> ELSE Head(ss) \o Cat(Tail(ss))

\* Rust's `<` on str: lexicographic order of the bytes.
RECURSIVE StrLess(_, _)
StrLess(a, b) ==
  IF b = <<>> THEN FALSE
  ELSE IF a = <<>> THEN TRUE
  ELSE IF Head(a) # Head(b) THEN Head(a) < Head(b)
  ELSE StrLess(Tail(a), Tail(b))

\* Display of an unsigned integer: its decimal digits.
RECURSIVE DisplayNat(_)
DisplayNat(n) ==
  IF n < 10 THEN <<48 + n>> ELSE DisplayNat(n \div 10) \o <<48 + (n % 10)>>

\* Display of an i32 (count).
DisplayInt(n) ==
  IF n < 0 THEN <<45>> \o DisplayNat(0 - n) ELSE DisplayNat(n)

(***************************************************************************)
(* Literals of the source, as bytes                                        *)
(***************************************************************************)

\* "count"
K_count ==
  <<99, 111, 117, 110, 116>>

\* "filter_level"
K_filter_level ==
  <<102, 105, 108, 116, 101, 114, 95, 108, 101, 118, 101, 108>>

\* "follow"
K_follow ==
  <<102, 111, 108, 108, 111, 119>>

\* "language"
K_language ==
  <<108, 97, 110, 103, 117, 97, 103, 101>>

\* "locations"
K_locations ==
  <<108, 111, 99, 97, 116, 105, 111, 110, 115>>

\* "oauth_consumer_key"
K_oauth_consumer_key ==
  <<111, 97, 117, 116, 104, 95, 99, 111, 110, 115, 117, 109, 101, 114, 95, 107, 101, 121>>

\* "oauth_nonce"
K_oauth_nonce ==
  <<111, 97, 117, 116, 104, 95, 110, 111, 110, 99, 101>>

\* "oauth_signature_method"
K_oauth_signature_method ==
  <<111, 97, 117, 116, 104, 95, 115, 105, 103, 110, 97, 116, 117, 114, 101, 95, 109, 101, 116, 104, 111, 100>>

\* "oauth_timestamp"
K_oauth_timestamp ==
  <<111, 97, 117, 116, 104, 95, 116, 105, 109, 101, 115, 116, 97, 109, 112>>

\* "oauth_token"
K_oauth_token ==
  <<111, 97, 117, 116, 104, 95, 116, 111, 107, 101, 110>>

\* "oauth_version"
K_oauth_version ==
  <<111, 97, 117, 116, 104, 95, 118, 101, 114, 115, 105, 111, 110>>

\* "replies"
K_replies ==
  <<114, 101, 112, 108, 105, 101, 115>>

\* "stall_warnings"
K_stall_warnings ==
  <<115, 116, 97, 108, 108, 95, 119, 97, 114, 110, 105, 110, 103, 115>>

\* "track"
K_track ==
  <<116, 114, 97, 99, 107>>

\* "with"
K_with ==
  <<119, 105, 116, 104>>

\* "HMAC-SHA1"
S_HMAC_SHA1 ==
  <<72, 77, 65, 67, 45, 83, 72, 65, 49>>

\* "1.0"
S_1_0 ==
  <<49, 46, 48>>

\* "all"
S_all ==
  <<97, 108, 108>>

\* "true"
S_true ==
  <<116, 114, 117, 101>>

\* "%2C"
COMMA ==
  <<37, 50, 67>>

\* "%252C"
COMMA_DOUBLE_ENCODED ==
  <<37, 50, 53, 50, 67>>

\* "OAuth "
S_OAuth ==
  <<79, 65, 117, 116, 104, 32>>

\* "oauth_signature"
S_oauth_signature ==
  <<111, 97, 117, 116, 104, 95, 115, 105, 103, 110, 97, 116, 117, 114, 101>>

\* "GET"
S_GET ==
  <<71, 69, 84>>

\* "POST"
S_POST ==
  <<80, 79, 83, 84>>


(***************************************************************************)
(* Percent encoding                                                        *)
(***************************************************************************)

\* The table of EncodeSet::contains, indexed by byte + 1.
ENCODE_MAP ==
  <<
    TRUE, TRUE, TRUE, TRUE, TRUE, TRUE, TRUE, TRUE,
    TRUE, TRUE, TRUE, TRUE, TRUE, TRUE, TRUE, TRUE,
    TRUE, TRUE, TRUE, TRUE, TRUE, TRUE, TRUE, TRUE,
    TRUE, TRUE, TRUE, TRUE, TRUE, TRUE, TRUE, TRUE,
    TRUE, TRUE, TRUE, TRUE, TRUE, TRUE, TRUE, TRUE,
    TRUE, TRUE, TRUE, TRUE, TRUE, FALSE, FALSE, TRUE,
    FALSE, FALSE, FALSE, FALSE, FALSE, FALSE, FALSE, FALSE,
    FALSE, FALSE, TRUE, TRUE, TRUE, TRUE, TRUE, TRUE,
    TRUE, FALSE, FALSE, FALSE, FALSE, FALSE, FALSE, FALSE,
    FALSE, FALSE, FALSE, FALSE, FALSE, FALSE, FALSE, FALSE,
    FALSE, FALSE, FALSE, FALSE, FALSE, FALSE, FALSE, FALSE,
    FALSE, FALSE, FALSE, TRUE, TRUE, TRUE, TRUE, FALSE,
    TRUE, FALSE, FALSE, FALSE, FALSE, FALSE, FALSE, FALSE,
    FALSE, FALSE, FALSE, FALSE, FALSE, FALSE, FALSE, FALSE,
    FALSE, FALSE, FALSE, FALSE, FALSE, FALSE, FALSE, FALSE,
    FALSE, FALSE, FALSE, TRUE, TRUE, TRUE, FALSE, TRUE,
    TRUE, TRUE, TRUE, TRUE, TRUE, TRUE, TRUE, TRUE,
    TRUE, TRUE, TRUE, TRUE, TRUE, TRUE, TRUE, TRUE,
    TRUE, TRUE, TRUE, TRUE, TRUE, TRUE, TRUE, TRUE,
    TRUE, TRUE, TRUE, TRUE, TRUE, TRUE, TRUE, TRUE,
    TRUE, TRUE, TRUE, TRUE, TRUE, TRUE, TRUE, TRUE,
    TRUE, TRUE, TRUE, TRUE, TRUE, TRUE, TRUE, TRUE,
    TRUE, TRUE, TRUE, TRUE, TRUE, TRUE, TRUE, TRUE,
    TRUE, TRUE, TRUE, TRUE, TRUE, TRUE, TRUE, TRUE,
    TRUE, TRUE, TRUE, TRUE, TRUE, TRUE, TRUE, TRUE,
    TRUE, TRUE, TRUE, TRUE, TRUE, TRUE, TRUE, TRUE,
    TRUE, TRUE, TRUE, TRUE, TRUE, TRUE, TRUE, TRUE,
    TRUE, TRUE, TRUE, TRUE, TRUE, TRUE, TRUE, TRUE,
    TRUE, TRUE, TRUE, TRUE, TRUE, TRUE, TRUE, TRUE,
    TRUE, TRUE, TRUE, TRUE, TRUE, TRUE, TRUE, TRUE,
    TRUE, TRUE, TRUE, TRUE, TRUE, TRUE, TRUE, TRUE,
    TRUE, TRUE, TRUE, TRUE, TRUE, TRUE, TRUE, TRUE
  >>

\* The table of double_encode_byte: 256 entries of 5 bytes.
DOUBLE_ENCODE ==
  <<
    37, 50, 53, 48, 48, 37, 50, 53, 48, 49, 37, 50, 53, 48, 50, 37, 50, 53, 48, 51,
    37, 50, 53, 48, 52, 37, 50, 53, 48, 53, 37, 50, 53, 48, 54, 37, 50, 53, 48, 55,
    37, 50, 53, 48, 56, 37, 50, 53, 48, 57, 37, 50, 53, 48, 65, 37, 50, 53, 48, 66,
    37, 50, 53, 48, 67, 37, 50, 53, 48, 68, 37, 50, 53, 48, 69, 37, 50, 53, 48, 70,
    37, 50, 53, 49, 48, 37, 50, 53, 49, 49, 37, 50, 53, 49, 50, 37, 50, 53, 49, 51,
    37, 50, 53, 49, 52, 37, 50, 53, 49, 53, 37, 50, 53, 49, 54, 37, 50, 53, 49, 55,
    37, 50, 53, 49, 56, 37, 50, 53, 49, 57, 37, 50, 53, 49, 65, 37, 50, 53, 49, 66,
    37, 50, 53, 49, 67, 37, 50, 53, 49, 68, 37, 50, 53, 49, 69, 37, 50, 53, 49, 70,
    37, 50, 53, 50, 48, 37, 50, 53, 50, 49, 37, 50, 53, 50, 50, 37, 50, 53, 50, 51,
    37, 50, 53, 50, 52, 37, 50, 53, 50, 53, 37, 50, 53, 50, 54, 37, 50, 53, 50, 55,
    37, 50, 53, 50, 56, 37, 50, 53, 50, 57, 37, 50, 53, 50, 65, 37, 50, 53, 50, 66,
    37, 50, 53, 50, 67, 37, 50, 53, 50, 68, 37, 50, 53, 50, 69, 37, 50, 53, 50, 70,
    37, 50, 53, 51, 48, 37, 50, 53, 51, 49, 37, 50, 53, 51, 50, 37, 50, 53, 51, 51,
    37, 50, 53, 51, 52, 37, 50, 53, 51, 53, 37, 50, 53, 51, 54, 37, 50, 53, 51, 55,
    37, 50, 53, 51, 56, 37, 50, 53, 51, 57, 37, 50, 53, 51, 65, 37, 50, 53, 51, 66,
    37, 50, 53, 51, 67, 37, 50, 53, 51, 68, 37, 50, 53, 51, 69, 37, 50, 53, 51, 70,
    37, 50, 53, 52, 48, 37, 50, 53, 52, 49, 37, 50, 53, 52, 50, 37, 50, 53, 52, 51,
    37, 50, 53, 52, 52, 37, 50, 53, 52, 53, 37, 50, 53, 52, 54, 37, 50, 53, 52, 55,
    37, 50, 53, 52, 56, 37, 50, 53, 52, 57, 37, 50, 53, 52, 65, 37, 50, 53, 52, 66,
    37, 50, 53, 52, 67, 37, 50, 53, 52, 68, 37, 50, 53, 52, 69, 37, 50, 53, 52, 70,
    37, 50, 53, 53, 48, 37, 50, 53, 53, 49, 37, 50, 53, 53, 50, 37, 50, 53, 53, 51,
    37, 50, 53, 53, 52, 37, 50, 53, 53, 53, 37, 50, 53, 53, 54, 37, 50, 53, 53, 55,
    37, 50, 53, 53, 56, 37, 50, 53, 53, 57, 37, 50, 53, 53, 65, 37, 50, 53, 53, 66,
    37, 50, 53, 53, 67, 37, 50, 53, 53, 68, 37, 50, 53, 53, 69, 37, 50, 53, 53, 70,
    37, 50, 53, 54, 48, 37, 50, 53, 54, 49, 37, 50, 53, 54, 50, 37, 50, 53, 54, 51,
    37, 50, 53, 54, 52, 37, 50, 53, 54, 53, 37, 50, 53, 54, 54, 37, 50, 53, 54, 55,
    37, 50, 53, 54, 56, 37, 50, 53, 54, 57, 37, 50, 53, 54, 65, 37, 50, 53, 54, 66,
    37, 50, 53, 54, 67, 37, 50, 53, 54, 68, 37, 50, 53, 54, 69, 37, 50, 53, 54, 70,
    37, 50, 53, 55, 48, 37, 50, 53, 55, 49, 37, 50, 53, 55, 50, 37, 50, 53, 55, 51,
    37, 50, 53, 55, 52, 37, 50, 53, 55, 53, 37, 50, 53, 55, 54, 37, 50, 53, 55, 55,
    37, 50, 53, 55, 56, 37, 50, 53, 55, 57, 37, 50, 53, 55, 65, 37, 50, 53, 55, 66,
    37, 50, 53, 55, 67, 37, 50, 53, 55, 68, 37, 50, 53, 55, 69, 37, 50, 53, 55, 70,
    37, 50, 53, 56, 48, 37, 50, 53, 56, 49, 37, 50, 53, 56, 50, 37, 50, 53, 56, 51,
    37, 50, 53, 56, 52, 37, 50, 53, 56, 53, 37, 50, 53, 56, 54, 37, 50, 53, 56, 55,
    37, 50, 53, 56, 56, 37, 50, 53, 56, 57, 37, 50, 53, 56, 65, 37, 50, 53, 56, 66,
    37, 50, 53, 56, 67, 37, 50, 53, 56, 68, 37, 50, 53, 56, 69, 37, 50, 53, 56, 70,
    37, 50, 53, 57, 48, 37, 50, 53, 57, 49, 37, 50, 53, 57, 50, 37, 50, 53, 57, 51,
    37, 50, 53, 57, 52, 37, 50, 53, 57, 53, 37, 50, 53, 57, 54, 37, 50, 53, 57, 55,
    37, 50, 53, 57, 56, 37, 50, 53, 57, 57, 37, 50, 53, 57, 65, 37, 50, 53, 57, 66,
    37, 50, 53, 57, 67, 37, 50, 53, 57, 68, 37, 50, 53, 57, 69, 37, 50, 53, 57, 70,
    37, 50, 53, 65, 48, 37, 50, 53, 65, 49, 37, 50, 53, 65, 50, 37, 50, 53, 65, 51,
    37, 50, 53, 65, 52, 37, 50, 53, 65, 53, 37, 50, 53, 65, 54, 37, 50, 53, 65, 55,
    37, 50, 53, 65, 56, 37, 50, 53, 65, 57, 37, 50, 53, 65, 65, 37, 50, 53, 65, 66,
    37, 50, 53, 65, 67, 37, 50, 53, 65, 68, 37, 50, 53, 65, 69, 37, 50, 53, 65, 70,
    37, 50, 53, 66, 48, 37, 50, 53, 66, 49, 37, 50, 53, 66, 50, 37, 50, 53, 66, 51,
    37, 50, 53, 66, 52, 37, 50, 53, 66, 53, 37, 50, 53, 66, 54, 37, 50, 53, 66, 55,
    37, 50, 53, 66, 56, 37, 50, 53, 66, 57, 37, 50, 53, 66, 65, 37, 50, 53, 66, 66,
    37, 50, 53, 66, 67, 37, 50, 53, 66, 68, 37, 50, 53, 66, 69, 37, 50, 53, 66, 70,
    37, 50, 53, 67, 48, 37, 50, 53, 67, 49, 37, 50, 53, 67, 50, 37, 50, 53, 67, 51,
    37, 50, 53, 67, 52, 37, 50, 53, 67, 53, 37, 50, 53, 67, 54, 37, 50, 53, 67, 55,
    37, 50, 53, 67, 56, 37, 50, 53, 67, 57, 37, 50, 53, 67, 65, 37, 50, 53, 67, 66,
    37, 50, 53, 67, 67, 37, 50, 53, 67, 68, 37, 50, 53, 67, 69, 37, 50, 53, 67, 70,
    37, 50, 53, 68, 48, 37, 50, 53, 68, 49, 37, 50, 53, 68, 50, 37, 50, 53, 68, 51,
    37, 50, 53, 68, 52, 37, 50, 53, 68, 53, 37, 50, 53, 68, 54, 37, 50, 53, 68, 55,
    37, 50, 53, 68, 56, 37, 50, 53, 68, 57, 37, 50, 53, 68, 65, 37, 50, 53, 68, 66,
    37, 50, 53, 68, 67, 37, 50, 53, 68, 68, 37, 50, 53, 68, 69, 37, 50, 53, 68, 70,
    37, 50, 53, 69, 48, 37, 50, 53, 69, 49, 37, 50, 53, 69, 50, 37, 50, 53, 69, 51,
    37, 50, 53, 69, 52, 37, 50, 53, 69, 53, 37, 50, 53, 69, 54, 37, 50, 53, 69, 55,
    37, 50, 53, 69, 56, 37, 50, 53, 69, 57, 37, 50, 53, 69, 65, 37, 50, 53, 69, 66,
    37, 50, 53, 69, 67, 37, 50, 53, 69, 68, 37, 50, 53, 69, 69, 37, 50, 53, 69, 70,
    37, 50, 53, 70, 48, 37, 50, 53, 70, 49, 37, 50, 53, 70, 50, 37, 50, 53, 70, 51,
    37, 50, 53, 70, 52, 37, 50, 53, 70, 53, 37, 50, 53, 70, 54, 37, 50, 53, 70, 55,
    37, 50, 53, 70, 56, 37, 50, 53, 70, 57, 37, 50, 53, 70, 65, 37, 50, 53, 70, 66,
    37, 50, 53, 70, 67, 37, 50, 53, 70, 68, 37, 50, 53, 70, 69, 37, 50, 53, 70, 70
  >>

\* The set that also holds '~'.
EncodeSet_contains_Tilde(b) ==
  b = 126 \/ ENCODE_MAP[b + 1]

\* EncodeSet::contains(b): whether byte b must be escaped.
EncodeSet_contains(b) ==
  ENCODE_MAP[b + 1]

\* An uppercase hexadecimal digit.
HexDigit(n) ==
  IF n < 10 THEN 48 + n ELSE 55 + n

\* percent_encoding::percent_encode_byte: "%XX", uppercase.
percent_encode_byte(b) ==
  <<37, HexDigit(b \div 16), HexDigit(b % 16)>>

\* percent_encode(input): utf8_percent_encode with EncodeSet.
RECURSIVE percent_encode(_)
percent_encode(input) ==
  IF input = <<>> THEN <<>>
  ELSE (IF EncodeSet_contains(Head(input))
          THEN percent_encode_byte(Head(input))
          ELSE <<Head(input)>>) \o percent_encode(Tail(input))

\* The byte encoded once.
double_encode_byte_Once(b) ==
  percent_encode_byte(b)

\* double_encode_byte(b): the slice ENCODE[b*5..(b+1)*5].
double_encode_byte(b) ==
  SubSeq(DOUBLE_ENCODE, b * 5 + 1, (b + 1) * 5)

\* bytes.iter().enumerate().skip(1).find(contains): the least 0-based index
\* i >= 1 of a byte to escape, or -1 when there is none.
FindEncoded(bytes) ==
  LET hits == {i \in 1..(Len(bytes) - 1) : EncodeSet_contains(bytes[i + 1])}
  IN IF hits = {} THEN -1
     ELSE CHOOSE i \in hits : \A j \in hits : i <= j

\* The loop with the rest taken from the byte that ends a run, so that the
\* byte is written once more.
RECURSIVE DoublePercentEncode_RestFromByte(_)
DoublePercentEncode_RestFromByte(bytes) ==
  IF bytes = <<>> THEN <<>>
  ELSE IF EncodeSet_contains(Head(bytes))
    THEN double_encode_byte(Head(bytes))
           \o DoublePercentEncode_RestFromByte(Tail(bytes))
  ELSE LET i == FindEncoded(bytes)
       IN IF i # -1
            THEN SubSeq(bytes, 1, i)
                   \o double_encode_byte(bytes[i + 1])
                   \o DoublePercentEncode_RestFromByte(
                        SubSeq(bytes, i + 1, Len(bytes)))
            ELSE bytes

\* Display for DoublePercentEncode: the loop over runs of unreserved bytes.
RECURSIVE DoublePercentEncode(_)
DoublePercentEncode(bytes) ==
  IF bytes = <<>> THEN <<>>
  ELSE IF EncodeSet_contains(Head(bytes))
    THEN double_encode_byte(Head(bytes)) \o DoublePercentEncode(Tail(bytes))
  ELSE LET i == FindEncoded(bytes)
       IN IF i # -1
            THEN SubSeq(bytes, 1, i)
                   \o double_encode_byte(bytes[i + 1])
                   \o DoublePercentEncode(SubSeq(bytes, i + 2, Len(bytes)))
            ELSE bytes

(***************************************************************************)
(* hyper::Uri: a record of its parts; query is <<>> when absent.           *)
(***************************************************************************)

\* Display for Uri (uri.to_string()).
UriToString(uri) ==
  Cat(<<uri.scheme, <<58, 47, 47>>, uri.authority, uri.path,
        IF uri.has_query THEN <<63>> \o uri.query ELSE <<>> >>)

\* The whole URI, percent encoded.
PercentEncodeUri_WithQuery(uri) ==
  percent_encode(UriToString(uri))

\* Display for PercentEncodeUri: scheme "%3A%2F%2F" authority path; the
\* query part is not written.
PercentEncodeUri(uri) ==
  Cat(<<uri.scheme, <<37, 51, 65, 37, 50, 70, 37, 50, 70>>,
        percent_encode(uri.authority), percent_encode(uri.path)>>)

(***************************************************************************)
(* QueryBuilder: a record                                                  *)
(*   header, query : the two output texts                                  *)
(*   mac           : the bytes written to the HMAC so far                  *)
(*   signing_key   : the key of the HMAC                                   *)
(*   will_append_question_mark, prev_key : as in the source                *)
(*   debug         : whether the build has debug_assertions                *)
(*   panicked      : an assertion of the builder has failed                *)
(* An operation on a panicked builder does nothing: the call that          *)
(* panicked unwound the caller.                                            *)
(***************************************************************************)

\* QueryBuilder::new_(cs, as_, method, uri, q)
QueryBuilder_new_(cs, as_, method, uri, q, debug) ==
  [ header |-> S_OAuth,
    query |-> IF q THEN UriToString(uri) ELSE <<>>,
    mac |-> Cat(<<method, <<38>>, PercentEncodeUri(uri), <<38>> >>),
    signing_key |-> Cat(<<percent_encode(cs), <<38>>, percent_encode(as_)>>),
    will_append_question_mark |-> q,
    prev_key |-> <<>>,
    debug |-> debug,
    panicked |-> FALSE ]

\* QueryBuilder::new
QueryBuilder_new(cs, as_, method, uri, debug) ==
  QueryBuilder_new_(cs, as_, method, uri, TRUE, debug)

\* QueryBuilder::new_form
QueryBuilder_new_form(cs, as_, method, uri, debug) ==
  QueryBuilder_new_(cs, as_, method, uri, FALSE, debug)

\* The assertion weakened to accept a repeated key (<= for <).
KeyInOrder_NonStrict(prev_key, k) ==
  ~StrLess(k, prev_key)

\* The assertion of check_dictionary_order.
KeyInOrder(prev_key, k) ==
  StrLess(prev_key, k)

\* QueryBuilder::check_dictionary_order: compiled only with debug_assertions.
check_dictionary_order(qb, k) ==
  IF qb.panicked \/ ~qb.debug THEN qb
  ELSE IF KeyInOrder(qb.prev_key, k)
    THEN [qb EXCEPT !.prev_key = k]
    ELSE [qb EXCEPT !.panicked = TRUE]

\* QueryBuilder::append_question_mark
append_question_mark(qb) ==
  IF qb.panicked THEN qb
  ELSE IF qb.will_append_question_mark
    THEN [qb EXCEPT !.query = @ \o <<63>>,
                    !.will_append_question_mark = FALSE]
    ELSE qb

\* The separator written after every pair, the last one too.
MacSeparator_Always(end) ==
  <<37, 50, 54>>

\* The separator mac_input and mac_input_encoded write after a pair.
MacSeparator(end) ==
  IF ~end THEN <<37, 50, 54>> ELSE <<>>

\* QueryBuilder::mac_input
mac_input_EncodedOnce(qb, k, v, end) ==
  IF qb.panicked THEN qb
  ELSE [qb EXCEPT !.mac =
          Cat(<<@, k, <<37, 51, 68>>, percent_encode(v), MacSeparator(end)>>)]

mac_input(qb, k, v, end) ==
  IF qb.panicked THEN qb
  ELSE [qb EXCEPT !.mac =
          Cat(<<@, k, <<37, 51, 68>>, DoublePercentEncode(v),
                MacSeparator(end)>>)]

\* The pair written with '=' for "%3D".
mac_input_encoded_Equals(qb, k, v, end) ==
  IF qb.panicked THEN qb
  ELSE [qb EXCEPT !.mac = Cat(<<@, k, <<61>>, v, MacSeparator(end)>>)]

\* QueryBuilder::mac_input_encoded
mac_input_encoded(qb, k, v, end) ==
  IF qb.panicked THEN qb
  ELSE [qb EXCEPT !.mac =
          Cat(<<@, k, <<37, 51, 68>>, v, MacSeparator(end)>>)]

\* The separator append and append_encoded push after a pair.
QuerySeparator(end) ==
  IF ~end THEN <<38>> ELSE <<>>

\* QueryBuilder::append
append(qb, k, v, end) ==
  LET q1 == append_question_mark(check_dictionary_order(qb, k))
      q2 == IF q1.panicked THEN q1
            ELSE [q1 EXCEPT !.query = Cat(<<@, k, <<61>>, percent_encode(v)>>)]
      q3 == mac_input(q2, k, v, end)
  IN IF q3.panicked THEN q3
     ELSE [q3 EXCEPT !.query = @ \o QuerySeparator(end)]

\* append_encoded writing to the outward text the value meant for the
\* signature.
append_encoded_OutwardAsSigned(qb, k, v, w, end) ==
  LET q1 == append_question_mark(check_dictionary_order(qb, k))
      q2 == IF q1.panicked THEN q1
            ELSE [q1 EXCEPT !.query = Cat(<<@, k, <<61>>, w>>)]
      q3 == mac_input_encoded(q2, k, w, end)
  IN IF q3.panicked THEN q3
     ELSE [q3 EXCEPT !.query = @ \o QuerySeparator(end)]

\* QueryBuilder::append_encoded
append_encoded(qb, k, v, w, end) ==
  LET q1 == append_question_mark(check_dictionary_order(qb, k))
      q2 == IF q1.panicked THEN q1
            ELSE [q1 EXCEPT !.query = Cat(<<@, k, <<61>>, v>>)]
      q3 == mac_input_encoded(q2, k, w, end)
  IN IF q3.panicked THEN q3
     ELSE [q3 EXCEPT !.query = @ \o QuerySeparator(end)]

\* QueryBuilder::append_to_header
append_to_header_Raw(qb, k, v, end) ==
  LET q1 == check_dictionary_order(qb, k)
      q2 == IF q1.panicked THEN q1
            ELSE [q1 EXCEPT !.header = Cat(<<@, k, <<61, 34>>, v, <<34, 44>> >>)]
  IN mac_input(q2, k, v, end)

append_to_header(qb, k, v, end) ==
  LET q1 == check_dictionary_order(qb, k)
      q2 == IF q1.panicked THEN q1
            ELSE [q1 EXCEPT !.header =
                    Cat(<<@, k, <<61, 34>>, percent_encode(v), <<34, 44>> >>)]
  IN mac_input(q2, k, v, end)

\* QueryBuilder::append_to_header_encoded
append_to_header_encoded(qb, k, v, end) ==
  LET q1 == check_dictionary_order(qb, k)
      q2 == IF q1.panicked THEN q1
            ELSE [q1 EXCEPT !.header = Cat(<<@, k, <<61, 34>>, v, <<34, 44>> >>)]
  IN mac_input_encoded(q2, k, v, end)

\* QueryBuilder::append_oauth_params_
append_oauth_params_(qb, ck, ak, nonce, timestamp, end) ==
  LET q0 == append_question_mark(qb)
      q1 == append_to_header(q0, K_oauth_consumer_key, ck, FALSE)
      q2 == append_to_header_encoded(q1, K_oauth_nonce, nonce, FALSE)
      q3 == append_to_header_encoded(q2, K_oauth_signature_method,
                                     S_HMAC_SHA1, FALSE)
      q4 == append_to_header_encoded(q3, K_oauth_timestamp,
                                     DisplayNat(timestamp), FALSE)
      q5 == append_to_header(q4, K_oauth_token, ak, FALSE)
  IN append_to_header_encoded(q5, K_oauth_version, S_1_0, end)

(***************************************************************************)
(* Base64PercentEncode                                                     *)
(***************************************************************************)

\* The table ENCODE of Base64PercentEncode::fmt: "A".."Z", "a".."z",
\* "0".."9", "%2B", "%2F".
BASE64_ENCODE(n) ==
  IF n < 26 THEN <<65 + n>>
  ELSE IF n < 52 THEN <<97 + (n - 26)>>
  ELSE IF n < 62 THEN <<48 + (n - 52)>>
  ELSE IF n = 62 THEN <<37, 50, 66>>
  ELSE <<37, 50, 70>>

\* The bits of one byte, most significant first.
ByteBits(b) ==
  [j \in 1..8 |-> (b \div (2 ^ (8 - j))) % 2]

\* BigEndian::read_u128 / read_u64: the word as its bits, most significant
\* first (a word of 128 bits does not fit a model integer).
RECURSIVE BigEndianRead(_)
BigEndianRead(bytes) ==
  IF bytes = <<>> THEN <<>>
  ELSE ByteBits(Head(bytes)) \o BigEndianRead(Tail(bytes))

\* The bit of weight 2^p of a word, 0 when p is outside the word.
WordBit(word, p) ==
  IF p < 0 \/ p >= Len(word) THEN 0 ELSE word[Len(word) - p]

\* (word >> shl) & 0b11_1111
ShrMask6(word, shl) ==
  WordBit(word, shl) + 2 * WordBit(word, shl + 1) + 4 * WordBit(word, shl + 2)
    + 8 * WordBit(word, shl + 3) + 16 * WordBit(word, shl + 4)
    + 32 * WordBit(word, shl + 5)

\* The word masked without the shift.
ShlMask6_Unshifted(word, shl) ==
  ShrMask6(word, 0)

\* (word << shl) & 0b11_1111
ShlMask6(word, shl) ==
  ShrMask6(word, 0 - shl)

\* The symbols write_enc! writes for shifts width-6, width-12, ... (n of them).
RECURSIVE WriteEncLoop(_, _, _, _)
WriteEncLoop(word, width, i, n) ==
  IF i >= n THEN <<>>
  ELSE BASE64_ENCODE(ShrMask6(word, width - 6 - 6 * i))
         \o WriteEncLoop(word, width, i + 1, n)

\* Display for Base64PercentEncode (the input has 20 bytes).
Base64PercentEncode(s) ==
  LET w128 == BigEndianRead(SubSeq(s, 1, 16))
      w64 == BigEndianRead(SubSeq(s, 13, 20))
  IN Cat(<<WriteEncLoop(w128, 128, 0, 16),
           WriteEncLoop(w64, 64, 0, 10),
           BASE64_ENCODE(ShlMask6(w64, 2)),
           <<37, 51, 68>> >>)

(***************************************************************************)
(* Hmac<Sha1>: the MAC of the hmac and sha1 crates (RFC 2104, FIPS 180-4). *)
(* A word of 32 bits is the pair of its halves of 16 bits, <<high, low>>:  *)
(* a word does not fit a model integer.                                    *)
(***************************************************************************)

\* The function of round t (0-based) on one bit of each of x, y, z:
\* (x & y) | (!x & z), then x ^ y ^ z, then (x & y) | (x & z) | (y & z),
\* then x ^ y ^ z.
Sha1_FBit(t, x, y, z) ==
  IF t < 20 THEN (IF x = 1 THEN y ELSE z)
  ELSE IF t < 40 THEN (x + y + z) % 2
  ELSE IF t < 60 THEN (x + y + z) \div 2
  ELSE (x + y + z) % 2

\* The same on numbers of width bits, a power of 2: on the high half of the
\* bits and on the low half.
RECURSIVE Sha1_FBits(_, _, _, _, _)
Sha1_FBits(t, x, y, z, width) ==
  IF width = 1 THEN Sha1_FBit(t, x, y, z)
  ELSE LET m == 2 ^ (width \div 2)
       IN m * Sha1_FBits(t, x \div m, y \div m, z \div m, width \div 2)
            + Sha1_FBits(t, x % m, y % m, z % m, width \div 2)

\* The function of round t on words.
Sha1_F(t, x, y, z) ==
  << Sha1_FBits(t, x[1], y[1], z[1], 16),
     Sha1_FBits(t, x[2], y[2], z[2], 16) >>

\* x ^ y ^ z
WordXor(x, y, z) ==
  Sha1_F(20, x, y, z)

\* rotate_left(n), 0 < n < 16
WordRotl(w, n) ==
  << ((w[1] * (2 ^ n)) % 65536) + (w[2] \div (2 ^ (16 - n))),
     ((w[2] * (2 ^ n)) % 65536) + (w[1] \div (2 ^ (16 - n))) >>

\* rotate_left(30)
WordRotl30(w) ==
  WordRotl(<<w[2], w[1]>>, 14)

\* wrapping_add of five words.
WordAdd(a, b, c, d, e) ==
  LET lo == a[2] + b[2] + c[2] + d[2] + e[2]
      hi == a[1] + b[1] + c[1] + d[1] + e[1] + (lo \div 65536)
  IN <<hi % 65536, lo % 65536>>

\* The word of four bytes of bytes from position i on, big endian.
WordOfBytes(bytes, i) ==
  <<256 * bytes[i] + bytes[i + 1], 256 * bytes[i + 2] + bytes[i + 3]>>

\* The four bytes of a word, big endian.
BytesOfWord(w) ==
  <<w[1] \div 256, w[1] % 256, w[2] \div 256, w[2] % 256>>

\* The initial hash value of SHA-1: 67452301 EFCDAB89 98BADCFE 10325476
\* C3D2E1F0.
Sha1_H0 ==
  << WordOfBytes(<<103, 69, 35, 1>>, 1), WordOfBytes(<<239, 205, 171, 137>>, 1),
     WordOfBytes(<<152, 186, 220, 254>>, 1),
     WordOfBytes(<<16, 50, 84, 118>>, 1),
     WordOfBytes(<<195, 210, 225, 240>>, 1) >>

\* The constant of round t (0-based): 5A827999, 6ED9EBA1, 8F1BBCDC,
\* CA62C1D6.
Sha1_K(t) ==
  IF t < 20 THEN WordOfBytes(<<90, 130, 121, 153>>, 1)
  ELSE IF t < 40 THEN WordOfBytes(<<110, 217, 235, 161>>, 1)
  ELSE IF t < 60 THEN WordOfBytes(<<143, 27, 188, 220>>, 1)
  ELSE WordOfBytes(<<202, 98, 193, 214>>, 1)

\* The word of the message schedule that follows the words w.
Sha1_NextWord(w) ==
  LET t == Len(w) + 1
  IN WordRotl(WordXor(WordXor(w[t - 3], w[t - 8], w[t - 14]), w[t - 16],
                      <<0, 0>>), 1)

\* The message schedule w extended by n words: by the first half of them
\* and then by the second half (the comparison of w has the first half
\* evaluated before the second).
RECURSIVE Sha1_Extend(_, _)
Sha1_Extend(w, n) ==
  IF n = 0 \/ w = <<>> THEN w
  ELSE IF n = 1 THEN Append(w, Sha1_NextWord(w))
  ELSE Sha1_Extend(Sha1_Extend(w, n \div 2), n - (n \div 2))

\* The message schedule: 80 words, 16 of them the block.
Sha1_Schedule(block) ==
  Sha1_Extend(<<>> \o [j \in 1..16 |-> WordOfBytes(block, 4 * j - 3)], 64)

\* Round t (0-based) on the working variables st = <<a, b, c, d, e>>.
Sha1_Round(st, w, t) ==
  << WordAdd(WordRotl(st[1], 5), Sha1_F(t, st[2], st[3], st[4]), st[5],
             Sha1_K(t), w[t + 1]),
     st[1], WordRotl30(st[2]), st[3], st[4] >>

\* The n rounds from round t on: the first half of them and then the
\* second half.
RECURSIVE Sha1_Rounds(_, _, _, _)
Sha1_Rounds(st, w, t, n) ==
  IF n = 0 \/ st = <<>> THEN st
  ELSE IF n = 1 THEN Sha1_Round(st, w, t)
  ELSE Sha1_Rounds(Sha1_Rounds(st, w, t, n \div 2), w, t + (n \div 2),
                   n - (n \div 2))

\* One block of 64 bytes compressed into the hash value h.
Sha1_Compress(h, block) ==
  LET st == Sha1_Rounds(h, Sha1_Schedule(block), 0, 80)
      zero == <<0, 0>>
  IN << WordAdd(h[1], st[1], zero, zero, zero),
        WordAdd(h[2], st[2], zero, zero, zero),
        WordAdd(h[3], st[3], zero, zero, zero),
        WordAdd(h[4], st[4], zero, zero, zero),
        WordAdd(h[5], st[5], zero, zero, zero) >>

\* The blocks of bytes compressed one after the other.
RECURSIVE Sha1_Blocks(_, _)
Sha1_Blocks(h, bytes) ==
  IF bytes = <<>> \/ h = <<>> THEN h
  ELSE Sha1_Blocks(Sha1_Compress(h, SubSeq(bytes, 1, 64)),
                   SubSeq(bytes, 65, Len(bytes)))

\* The message padded: 0x80, zero bytes, and the length in bits as a u64.
Sha1_Pad(msg) ==
  LET n == Len(msg)
      zeros == (119 - (n % 64)) % 64
      bits == 8 * n
  IN msg \o <<128>> \o [i \in 1..zeros |-> 0] \o <<0, 0, 0, 0>>
       \o <<(bits \div 16777216) % 256, (bits \div 65536) % 256,
            (bits \div 256) % 256, bits % 256>>

\* Sha1::digest
Sha1(msg) ==
  LET h == Sha1_Blocks(Sha1_H0, Sha1_Pad(msg))
  IN BytesOfWord(h[1]) \o BytesOfWord(h[2]) \o BytesOfWord(h[3])
       \o BytesOfWord(h[4]) \o BytesOfWord(h[5])

\* Hmac::<Sha1>::new_varkey(key), input(msg), result().code()
HmacSha1(key, msg) ==
  LET k0 == IF Len(key) > 64 THEN Sha1(key) ELSE key
      k == k0 \o [i \in 1..(64 - Len(k0)) |-> 0]
      ipad == [i \in 1..64 |-> Sha1_FBits(20, k[i], 54, 0, 8)]
      opad == [i \in 1..64 |-> Sha1_FBits(20, k[i], 92, 0, 8)]
  IN Sha1(opad \o Sha1(ipad \o msg))

\* QueryBuilder::build, with s the code of the HMAC: a QueryOutcome.
build(qb, s) ==
  [ header |-> Cat(<<qb.header, S_oauth_signature, <<61, 34>>,
                     Base64PercentEncode(s), <<34>> >>),
    query |-> qb.query ]

(***************************************************************************)
(* State                                                                   *)
(***************************************************************************)

VARIABLES
  qb,        \* the QueryBuilder being driven
  calls,     \* history: the append calls made on qb, in order
  outcome,   \* the QueryOutcome of build, once taken
  builder,   \* the fields of the TwitterStreamBuilder
  request,   \* the Request connect has built, once it has
  now,       \* the clock
  resp,      \* the response to the request: the ResponseFuture's source
  body,      \* the response body: the chunks received and not yet read
  fut,       \* the FutureTwitterStream
  stream,    \* the TwitterStream, once the future has resolved to it
  panicked,  \* a poll has panicked
  futLog,    \* history: the first and the last result of polling fut
  streamLog, \* history: what the polls of stream have returned
  envLog,    \* history: what the server has sent, and when
  encoding   \* an encoder with its input, and its output once applied

signerVars == <<qb, calls, outcome>>

builderVars == <<builder, request>>

sessionVars ==
  <<now, resp, body, fut, stream, panicked, futLog, streamLog, envLog>>

encoderVars == <<encoding>>

vars ==
  <<qb, calls, outcome, builder, request, now, resp, body, fut, stream,
    panicked, futLog, streamLog, envLog, encoding>>

(***************************************************************************)
(* Inputs of the signer                                                    *)
(***************************************************************************)

\* The number of append calls a caller of the signer makes.
MaxCalls == 3

\* Token: consumer key "ck", consumer secret "c s", access key "a-k",
\* access secret "a/s".
TokenCK == <<99, 107>>
TokenCS == <<99, 32, 115>>
TokenAK == <<97, 45, 107>>
TokenAS == <<97, 47, 115>>

\* https://stream.twitter.com/1.1/statuses/filter.json, and the same with
\* the query delimited=length.
EndpointPlain ==
  [ scheme |-> <<104, 116, 116, 112, 115>>,
    authority |-> <<115, 116, 114, 101, 97, 109, 46, 116, 119, 105, 116, 116,
                    101, 114, 46, 99, 111, 109>>,
    path |-> <<47, 49, 46, 49, 47, 115, 116, 97, 116, 117, 115, 101, 115, 47,
               102, 105, 108, 116, 101, 114, 46, 106, 115, 111, 110>>,
    has_query |-> FALSE,
    query |-> <<>> ]

EndpointWithQuery ==
  [EndpointPlain EXCEPT !.has_query = TRUE,
                        !.query = <<100, 101, 108, 105, 109, 105, 116, 101,
                                    100, 61, 108, 101, 110, 103, 116, 104>>]

Endpoints == {EndpointPlain, EndpointWithQuery}

\* Consumer keys a caller may pass to append_oauth_params: "ck", "c k".
SignerConsumerKeys == {TokenCK, <<99, 32, 107>>}

\* Keys a caller may pass: "a", "oauth_token", "z".
SignerKeys ==
  {<<97>>, K_oauth_token, <<122>>}

\* Values a caller may pass to append: "a", "a b,".
SignerValues ==
  {<<97>>, <<97, 32, 98, 44>>}

\* Pairs (v, w) a caller may pass to append_encoded: ("true", "true") and
\* ("1%2C2", "1%252C2").
SignerEncodedValues ==
  { <<S_true, S_true>>,
    <<Cat(<<DisplayNat(1), COMMA, DisplayNat(2)>>),
      Cat(<<DisplayNat(1), COMMA_DOUBLE_ENCODED, DisplayNat(2)>>)>> }

\* What append_oauth_params may draw: a nonce of 32 alphanumeric characters
\* from thread_rng, and the seconds since the epoch, 0 when the clock read
\* fails.
OAuthDraws ==
  { [ nonce |-> <<107, 89, 106, 122, 86, 66, 66, 56, 89, 48, 90, 70, 97, 98,
                  120, 83, 87, 98, 87, 111, 118, 89, 51, 117, 89, 83, 81, 50,
                  112, 84, 103, 109>>,
      timestamp |-> 1318622958 ],
    [ nonce |-> <<48, 48, 48, 48, 48, 48, 48, 48, 48, 48, 48, 48, 48, 48, 48,
                  48, 48, 48, 48, 48, 48, 48, 48, 48, 48, 48, 48, 48, 48, 48,
                  48, 65>>,
      timestamp |-> 0 ] }

\* Codes the HMAC may give (20 bytes each).
Digests ==
  { <<132, 43, 82, 153, 136, 126, 136, 118, 2, 18, 160, 86, 172, 78, 194, 238,
      22, 38, 181, 73>>,
    <<0, 16, 177, 203, 61, 53, 219, 239, 191, 95, 47, 127, 50, 126, 126, 77,
      253, 62, 255, 126>> }

\* The keys append_oauth_params_ passes to check_dictionary_order, in order.
OAuthKeys ==
  <<K_oauth_consumer_key, K_oauth_nonce, K_oauth_signature_method,
    K_oauth_timestamp, K_oauth_token, K_oauth_version>>

NotBuilt == [built |-> FALSE]

\* cfg(debug_assertions): the model is of the build that compiles the
\* assertions in (the dev and test profiles).
debug_assertions == TRUE

(***************************************************************************)
(* Calls on the builder, as records                                        *)
(*   op   : the method called                                              *)
(*   keys : the keys it passes to check_dictionary_order, in order         *)
(*   args : its other arguments ((v), (v, w) or (ck, ak, nonce, timestamp))*)
(*   end  : its last argument                                              *)
(***************************************************************************)

CallOfAppend(k, v, end) ==
  [op |-> "append", keys |-> <<k>>, args |-> <<v>>, end |-> end]

CallOfAppendEncoded(k, v, w, end) ==
  [op |-> "append_encoded", keys |-> <<k>>, args |-> <<v, w>>, end |-> end]

CallOfAppendOauthParams(ck, ak, nonce, timestamp, end) ==
  [op |-> "append_oauth_params", keys |-> OAuthKeys,
   args |-> <<ck, ak, nonce, timestamp>>, end |-> end]

\* The call c made on qb.
ApplyCall(b, c) ==
  CASE c.op = "append" -> append(b, c.keys[1], c.args[1], c.end)
    [] c.op = "append_encoded" ->
         append_encoded(b, c.keys[1], c.args[1], c.args[2], c.end)
    [] c.op = "append_oauth_params" ->
         append_oauth_params_(b, c.args[1], c.args[2], c.args[3], c.args[4],
                              c.end)

\* The calls cs made on qb one after the other.
RECURSIVE ApplyCalls(_, _)
ApplyCalls(b, cs) ==
  IF cs = <<>> THEN b ELSE ApplyCalls(ApplyCall(b, Head(cs)), Tail(cs))

(***************************************************************************)
(* TwitterStreamBuilder                                                    *)
(* An Option is a sequence: <<>> for None, <<v>> for Some(v).  A slice is  *)
(* a sequence.  An f64 is the text its Display writes.                     *)
(***************************************************************************)

\* FilterLevel::None, and the texts as_ref gives: "none", "low", "medium".
FilterLevel_None == <<110, 111, 110, 101>>
FilterLevel_Low == <<108, 111, 119>>
FilterLevel_Medium == <<109, 101, 100, 105, 117, 109>>

\* With::User as_ref: "user".
With_User == <<117, 115, 101, 114>>

\* Duration::from_secs(90), the default timeout.
DefaultTimeoutSecs == 90

\* TwitterStreamBuilder::custom: the defaults of the setters.
DefaultBuilder ==
  [ method |-> S_POST,
    endpoint |-> EndpointPlain,
    consumer_key |-> TokenCK,
    consumer_secret |-> TokenCS,
    access_key |-> TokenAK,
    access_secret |-> TokenAS,
    stall_warnings |-> FALSE,
    filter_level |-> FilterLevel_None,
    language |-> <<>>,
    follow |-> <<>>,
    track |-> <<>>,
    locations |-> <<>>,
    count |-> <<>>,
    with |-> <<>>,
    replies |-> FALSE,
    user_agent |-> <<>>,
    timeout |-> <<DefaultTimeoutSecs>> ]

NoRequest == [sent |-> FALSE]

\* Display for JoinDisplay(ids, sep): the ids with sep between them.
RECURSIVE JoinDisplay(_, _)
JoinDisplay(ids, sep) ==
  IF ids = <<>> THEN <<>>
  ELSE IF Len(ids) = 1 THEN DisplayNat(ids[1])
  ELSE Cat(<<DisplayNat(ids[1]), sep, JoinDisplay(Tail(ids), sep)>>)

\* push!(c, ...): sep and the number, for each number.
RECURSIVE LocationsPush(_, _)
LocationsPush(cs, sep) ==
  IF cs = <<>> THEN <<>>
  ELSE Cat(<<sep, Head(cs), LocationsPush(Tail(cs), sep)>>)

\* The boxes after the first: push!(x1, y1, x2, y2) for each.
RECURSIVE LocationsRest(_, _)
LocationsRest(locs, sep) ==
  IF locs = <<>> THEN <<>>
  ELSE LocationsPush(Head(locs), sep) \o LocationsRest(Tail(locs), sep)

\* Display for LocationsDisplay(locs, sep); a box is <<x1, y1, x2, y2>>.
LocationsDisplay(locs, sep) ==
  IF locs = <<>> THEN <<>>
  ELSE Cat(<<locs[1][1], LocationsPush(Tail(locs[1]), sep),
             LocationsRest(Tail(locs), sep)>>)

\* The calls build_query makes before append_oauth_params, in order.
build_query_before_oauth(b) ==
  Cat(<<
    IF b.count # <<>>
      THEN <<CallOfAppendEncoded(K_count, DisplayInt(b.count[1]),
                                 DisplayInt(b.count[1]), FALSE)>>
      ELSE <<>>,
    IF b.filter_level # FilterLevel_None
      THEN <<CallOfAppend(K_filter_level, b.filter_level, FALSE)>>
      ELSE <<>>,
    IF b.follow # <<>>
      THEN <<CallOfAppendEncoded(K_follow,
                                 JoinDisplay(b.follow[1], COMMA),
                                 JoinDisplay(b.follow[1], COMMA_DOUBLE_ENCODED),
                                 FALSE)>>
      ELSE <<>>,
    IF b.language # <<>>
      THEN <<CallOfAppend(K_language, b.language[1], FALSE)>>
      ELSE <<>>,
    IF b.locations # <<>>
      THEN <<CallOfAppendEncoded(K_locations,
                                 LocationsDisplay(b.locations[1], COMMA),
                                 LocationsDisplay(b.locations[1],
                                                  COMMA_DOUBLE_ENCODED),
                                 FALSE)>>
      ELSE <<>>
  >>)

\* The call of append_oauth_params build_query makes, with draw the nonce
\* and timestamp it draws.
build_query_oauth(b, draw) ==
  <<CallOfAppendOauthParams(b.consumer_key, b.access_key, draw.nonce,
                            draw.timestamp,
                            ~(b.replies \/ b.stall_warnings
                               \/ b.track # <<>> \/ b.with # <<>>))>>

\* The calls build_query makes after append_oauth_params, in order.
build_query_after_oauth(b) ==
  Cat(<<
    IF b.replies
      THEN <<CallOfAppendEncoded(K_replies, S_all, S_all,
                                 ~(b.stall_warnings
                                    \/ b.track # <<>> \/ b.with # <<>>))>>
      ELSE <<>>,
    IF b.stall_warnings
      THEN <<CallOfAppendEncoded(K_stall_warnings, S_true, S_true,
                                 ~(b.track # <<>> \/ b.with # <<>>))>>
      ELSE <<>>,
    IF b.track # <<>>
      THEN <<CallOfAppend(K_track, b.track[1], ~(b.with # <<>>))>>
      ELSE <<>>,
    IF b.with # <<>>
      THEN <<CallOfAppend(K_with, b.with[1], TRUE)>>
      ELSE <<>>
  >>)

\* build_query with append_oauth_params called first, before the request
\* parameters.
build_query_calls_OAuthFirst(b, draw) ==
  Cat(<<build_query_oauth(b, draw), build_query_before_oauth(b),
        build_query_after_oauth(b)>>)

\* The calls build_query makes on the QueryBuilder, in order.
build_query_calls(b, draw) ==
  Cat(<<build_query_before_oauth(b), build_query_oauth(b, draw),
        build_query_after_oauth(b)>>)

\* The QueryBuilder connect hands to build_query.
connect_query(b) ==
  IF b.method = S_POST
    THEN QueryBuilder_new_form(b.consumer_secret, b.access_secret, S_POST,
                               b.endpoint, debug_assertions)
    ELSE QueryBuilder_new(b.consumer_secret, b.access_secret, b.method,
                          b.endpoint, debug_assertions)

\* The request of a POST built as the others are but for its headers: the
\* signer's outward text as the URI, and no body.
connect_request_FormInUri(b, o) ==
  [ sent |-> TRUE,
    method |-> b.method,
    uri |-> o.query,
    user_agent |-> b.user_agent,
    authorization |-> o.header,
    content_type |-> IF b.method = S_POST
                       THEN <<"application/x-www-form-urlencoded">> ELSE <<>>,
    content_length |-> IF b.method = S_POST
                         THEN <<DisplayNat(Len(o.query))>> ELSE <<>>,
    body |-> <<>> ]

\* The Request connect builds from the QueryOutcome o.
connect_request(b, o) ==
  IF b.method = S_POST
    THEN [ sent |-> TRUE,
           method |-> b.method,
           uri |-> UriToString(b.endpoint),
           user_agent |-> b.user_agent,
           authorization |-> o.header,
           content_type |-> <<"application/x-www-form-urlencoded">>,
           content_length |-> <<DisplayNat(Len(o.query))>>,
           body |-> o.query ]
    ELSE [ sent |-> TRUE,
           method |-> b.method,
           uri |-> o.query,
           user_agent |-> b.user_agent,
           authorization |-> o.header,
           content_type |-> <<>>,
           content_length |-> <<>>,
           body |-> <<>> ]

(***************************************************************************)
(* Inputs of the request builder                                           *)
(***************************************************************************)

\* Option<i32>: None, Some(10), Some(-1).
Counts == {<<>>, <<10>>, <<0 - 1>>}

FilterLevels == {FilterLevel_None, FilterLevel_Low, FilterLevel_Medium}

\* Option<&[u64]>: None, Some(&[12]), Some(&[1, 2]).
Follows == {<<>>, << <<12>> >>, << <<1, 2>> >>}

\* Option<&str>: None, Some("en,ja").
Languages == {<<>>, << <<101, 110, 44, 106, 97>> >>}

\* A bounding box ((37.7748, -122.4146), (37.7788, -122.4186)) and a
\* second one, ((1, -2.5), (3, 4)).
Box1 ==
  << <<51, 55, 46, 55, 55, 52, 56>>,
     <<45, 49, 50, 50, 46, 52, 49, 52, 54>>,
     <<51, 55, 46, 55, 55, 56, 56>>,
     <<45, 49, 50, 50, 46, 52, 49, 56, 54>> >>

Box2 ==
  << <<49>>, <<45, 50, 46, 53>>, <<51>>, <<52>> >>

\* Option<&[((f64, f64), (f64, f64))]>: None, one box, two boxes.
LocationSets == {<<>>, << <<Box1>> >>, << <<Box1, Box2>> >>}

\* Option<&str>: None, Some("@T w").
Tracks == {<<>>, << <<64, 84, 32, 119>> >>}

\* Option<With>: None, Some(With::User).
Withs == {<<>>, <<With_User>>}

Methods == {S_GET, S_POST}

(***************************************************************************)
(* The session: FutureTwitterStream and TwitterStream                      *)
(***************************************************************************)

\* What a poll returns.  kind is "NotReady", "Stream" (the future has
\* resolved), "Item" (a stream's message, in val), "End" (a stream's
\* Ok(None)), "Err" (err names the Error variant, val holds the status of
\* Http), "Panic", or "None" before any poll.
Result(kind, err, val) == [kind |-> kind, err |-> err, val |-> val]

NoResult == Result("None", "", <<>>)

NotReady == Result("NotReady", "", <<>>)

Panic == Result("Panic", "", <<>>)

Err(err) == Result("Err", err, <<>>)

\* Timeout (util.rs): a timer armed with a duration, or one that never
\* fires.  The deadline is the time of arming plus the duration.
Timeout_never == [armed |-> FALSE, deadline |-> 0, dur |-> 0]

Timeout_new(dur, t) == [armed |-> TRUE, deadline |-> t + dur, dur |-> dur]

\* Timeout::poll: ready once the deadline is reached.
Timeout_poll(timeout, t) == timeout.armed /\ t >= timeout.deadline

\* The deadline restarted with the same duration, on data.
Timeout_reset(timeout, t) ==
  IF timeout.armed THEN Timeout_new(timeout.dur, t) ELSE timeout

\* The timer armed with no time when the builder's timeout is None.
listen_ZeroForNone(b, connector_ok, t) ==
  IF connector_ok
  THEN [inner |-> "Ok",
        timeout |-> Timeout_new(IF b.timeout = <<>> THEN 0
                                ELSE b.timeout[1], t)]
  ELSE [inner |-> "ErrSome", timeout |-> Timeout_never]

\* TwitterStreamBuilder::listen.  The future holds the connector's error
\* when default_connector::new() fails, and otherwise the pending response
\* with a timer armed now, or never when the builder's timeout is None.
listen(b, connector_ok, t) ==
  IF connector_ok
  THEN [inner |-> "Ok",
        timeout |-> IF b.timeout = <<>> THEN Timeout_never
                    ELSE Timeout_new(b.timeout[1], t)]
  ELSE [inner |-> "ErrSome", timeout |-> Timeout_never]

\* No future: listen has not been called.
NoFuture == [inner |-> "NotListening", timeout |-> Timeout_never]

\* The response: "none" (no request made), "pending", "ready" with a
\* status, "failed" with the request's error, and "taken" once a poll of
\* the ResponseFuture has returned it.
NoResponse == [state |-> "none", status |-> 0, error |-> 0]

PendingResponse == [state |-> "pending", status |-> 0, error |-> 0]

\* The body: the chunks received and not yet read, and whether it has ended.
NoBody == [chunks |-> <<>>, ended |-> FALSE]

\* TwitterStream { inner: Lines<TimeoutStream<Body>> }: the buffer of
\* Lines and the timer of TimeoutStream, with their terminal states.
NoStream ==
  [exists |-> FALSE, buf |-> <<>>, exhausted |-> FALSE,
   timeout |-> Timeout_never, timed_out |-> FALSE]

\* History.  Of the future: the first result of its polls that is not
\* "not ready", the errors its polls have returned, and the errors returned
\* before it resolved.
NoFutLog == [first |-> NoResult, errs |-> {}, resolvedAfter |-> {}]

\* Of the stream: the result of its last poll, the time its timer was last
\* armed, the messages and decoding errors its polls have returned, and how
\* many of them before the timeout.
NoStreamLog ==
  [last |-> NoResult, armedAt |-> 0, delivered |-> <<>>,
   deliveredAtTimeout |-> 0]

\* Of the server: the chunks sent, whether the connection's deadline was
\* in the past when the response arrived, and the requests made.
NoEnvLog == [received |-> <<>>, firedFirst |-> FALSE, requests |-> 0]

\* No encoder is applied outside the specification of the encoders.
NoEncoding == [op |-> "none", input |-> <<>>, done |-> FALSE, output |-> <<>>]

\* The other specifications make no session.
NoSession ==
  /\ now = 0
  /\ resp = NoResponse
  /\ body = NoBody
  /\ fut = NoFuture
  /\ stream = NoStream
  /\ panicked = FALSE
  /\ futLog = NoFutLog
  /\ streamLog = NoStreamLog
  /\ envLog = NoEnvLog

(***************************************************************************)
(* The request builder: connect on a builder with any settings             *)
(***************************************************************************)

InitBuilder ==
  /\ \E method \in Methods, count \in Counts, filter_level \in FilterLevels,
        follow \in Follows, language \in Languages,
        locations \in LocationSets, replies \in BOOLEAN,
        stall_warnings \in BOOLEAN, track \in Tracks, with \in Withs :
       builder = [DefaultBuilder EXCEPT
                    !.method = method, !.count = count,
                    !.filter_level = filter_level, !.follow = follow,
                    !.language = language, !.locations = locations,
                    !.replies = replies, !.stall_warnings = stall_warnings,
                    !.track = track, !.with = with]
  /\ qb = connect_query(builder)
  /\ calls = <<>>
  /\ outcome = NotBuilt
  /\ request = NoRequest
  /\ NoSession
  /\ encoding = NoEncoding

\* TwitterStreamBuilder::connect: build_query on a new QueryBuilder, and
\* the request built from its outcome.  A panic of the QueryBuilder leaves
\* no outcome and no request.
Connect ==
  /\ ~request.sent
  /\ ~qb.panicked
  /\ calls = <<>>
  /\ \E draw \in OAuthDraws, s \in Digests :
       /\ calls' = build_query_calls(builder, draw)
       /\ qb' = ApplyCalls(connect_query(builder), calls')
       /\ outcome' = IF qb'.panicked THEN NotBuilt
                     ELSE [built |-> TRUE] @@ build(qb', s)
       /\ request' = IF qb'.panicked THEN NoRequest
                     ELSE connect_request(builder, outcome')
  /\ UNCHANGED <<encoderVars, builder, sessionVars>>

NextBuilder ==
  Connect

SpecBuilder == InitBuilder /\ [][NextBuilder]_vars

(***************************************************************************)
(* The signer driven by an arbitrary caller                                *)
(***************************************************************************)

InitSigner ==
  /\ \E q \in BOOLEAN :
       qb = QueryBuilder_new_(TokenCS, TokenAS, IF q THEN S_GET ELSE S_POST,
                              EndpointWithQuery, q, debug_assertions)
  /\ calls = <<>>
  /\ outcome = NotBuilt
  /\ builder = DefaultBuilder
  /\ request = NoRequest
  /\ NoSession
  /\ encoding = NoEncoding

CanCall ==
  /\ ~qb.panicked
  /\ ~outcome.built
  /\ Len(calls) < MaxCalls

\* qb.append(k, v, end)
CallAppend(k, v, end) ==
  /\ CanCall
  /\ qb' = ApplyCall(qb, CallOfAppend(k, v, end))
  /\ calls' = Append(calls, CallOfAppend(k, v, end))
  /\ UNCHANGED <<encoderVars, outcome, builderVars, sessionVars>>

\* qb.append_encoded(k, v, w, end)
CallAppendEncoded(k, v, w, end) ==
  /\ CanCall
  /\ qb' = ApplyCall(qb, CallOfAppendEncoded(k, v, w, end))
  /\ calls' = Append(calls, CallOfAppendEncoded(k, v, w, end))
  /\ UNCHANGED <<encoderVars, outcome, builderVars, sessionVars>>

\* qb.append_oauth_params(ck, ak, end): the nonce and the timestamp are
\* drawn by the call.
CallAppendOauthParams(ck, ak, end) ==
  /\ CanCall
  /\ \E d \in OAuthDraws :
       LET c == CallOfAppendOauthParams(ck, ak, d.nonce, d.timestamp, end)
       IN /\ qb' = ApplyCall(qb, c)
          /\ calls' = Append(calls, c)
  /\ UNCHANGED <<encoderVars, outcome, builderVars, sessionVars>>

\* qb.build()
CallBuild ==
  /\ ~qb.panicked
  /\ ~outcome.built
  /\ \E s \in Digests :
       outcome' = [built |-> TRUE] @@ build(qb, s)
  /\ UNCHANGED <<encoderVars, qb, calls, builderVars, sessionVars>>

NextSigner ==
  \/ \E k \in SignerKeys, v \in SignerValues, end \in BOOLEAN :
       CallAppend(k, v, end)
  \/ \E k \in SignerKeys, vw \in SignerEncodedValues, end \in BOOLEAN :
       CallAppendEncoded(k, vw[1], vw[2], end)
  \/ \E ck \in SignerConsumerKeys, end \in BOOLEAN :
       CallAppendOauthParams(ck, TokenAK, end)
  \/ CallBuild

SpecSigner == InitSigner /\ [][NextSigner]_vars

(***************************************************************************)
(* impl Future for FutureTwitterStream                                     *)
(***************************************************************************)

StatusCode_OK == 200

\* StatusCode::OK != status, negated: the status the future accepts.
StatusAccepted_Any2xx(status) == status \div 100 = 2

StatusAccepted(status) == status = StatusCode_OK

\* resp.poll(): the ResponseFuture gives the response, or the request's
\* error, once; polling it again after that is outside the contract of
\* Future, and may panic or find nothing ready.
ResponseFuture_poll(r) ==
  CASE r.state = "pending" -> {[res |-> NotReady, resp |-> r]}
    [] r.state = "ready" ->
         {[res |-> Result("Ready", "", <<r.status>>),
           resp |-> [r EXCEPT !.state = "taken"]]}
    [] r.state = "failed" ->
         {[res |-> Result("Err", "", <<r.error>>),
           resp |-> [r EXCEPT !.state = "taken"]]}
    [] OTHER -> {[res |-> Panic, resp |-> r], [res |-> NotReady, resp |-> r]}

\* timeout.take().for_stream(res.into_body()) and Lines::new(body): the
\* stream's timer is the future's own timer, moved, with its deadline.
NewTwitterStream_NoTimeout(timeout) ==
  [NoStream EXCEPT !.exists = TRUE]

NewTwitterStream_DoubledDuration(timeout) ==
  [NoStream EXCEPT !.exists = TRUE,
                   !.timeout = [timeout EXCEPT !.dur = 2 * @]]

NewTwitterStream(timeout) ==
  [NoStream EXCEPT !.exists = TRUE, !.timeout = timeout]

\* The stream made with a timer, and the future's timer left armed.
FutureTwitterStream_poll_ready_KeepsTimer(f, rp) ==
  IF rp.res.kind = "Ready" /\ StatusAccepted(rp.res.val[1])
  THEN [res |-> Result("Stream", "", <<>>), fut |-> f, resp |-> rp.resp,
        stream |-> NewTwitterStream(f.timeout)]
  ELSE [res |-> CASE rp.res.kind = "Ready" ->
                       Result("Err", "Http", rp.res.val)
                  [] rp.res.kind = "Err" ->
                       Result("Err", "Hyper", rp.res.val)
                  [] OTHER -> rp.res,
        fut |-> f, resp |-> rp.resp, stream |-> NoStream]

\* The request's error returned as Error::Hyper without the error in it.
FutureTwitterStream_poll_ready_ErrorDropped(f, rp) ==
  CASE rp.res.kind = "Panic" ->
         [res |-> Panic, fut |-> f, resp |-> rp.resp, stream |-> NoStream]
    [] rp.res.kind = "Err" ->
         [res |-> Err("Hyper"), fut |-> f, resp |-> rp.resp,
          stream |-> NoStream]
    [] OTHER ->
         IF ~StatusAccepted(rp.res.val[1])
         THEN [res |-> Result("Err", "Http", rp.res.val), fut |-> f,
               resp |-> rp.resp, stream |-> NoStream]
         ELSE [res |-> Result("Stream", "", <<>>),
               fut |-> [f EXCEPT !.timeout = Timeout_never],
               resp |-> rp.resp, stream |-> NewTwitterStream(f.timeout)]

\* The arms of the match for a ResponseFuture that has completed: its
\* error as Error::Hyper, any status but OK as Error::Http, and the stream.
FutureTwitterStream_poll_ready(f, rp) ==
  CASE rp.res.kind = "Panic" ->
         [res |-> Panic, fut |-> f, resp |-> rp.resp, stream |-> NoStream]
    [] rp.res.kind = "Err" ->
         [res |-> Result("Err", "Hyper", rp.res.val), fut |-> f,
          resp |-> rp.resp, stream |-> NoStream]
    [] OTHER ->
         IF ~StatusAccepted(rp.res.val[1])
         THEN [res |-> Result("Err", "Http", rp.res.val), fut |-> f,
               resp |-> rp.resp, stream |-> NoStream]
         ELSE [res |-> Result("Stream", "", <<>>),
               fut |-> [f EXCEPT !.timeout = Timeout_never],
               resp |-> rp.resp, stream |-> NewTwitterStream(f.timeout)]

\* The arm for Async::NotReady: the timer is polled.
FutureTwitterStream_poll_not_ready_NoTimer(f, rp, t) ==
  [res |-> NotReady, fut |-> f, resp |-> rp.resp, stream |-> NoStream]

FutureTwitterStream_poll_not_ready(f, rp, t) ==
  [res |-> IF Timeout_poll(f.timeout, t) THEN Err("TimedOut") ELSE NotReady,
   fut |-> f, resp |-> rp.resp, stream |-> NoStream]

\* The poll with the timer polled before the response.
FutureTwitterStream_poll_TimerFirst(f, r, t) ==
  CASE f.inner = "ErrSome" ->
         {[res |-> Err("Tls"), fut |-> [f EXCEPT !.inner = "ErrNone"],
           resp |-> r, stream |-> NoStream]}
    [] f.inner = "ErrNone" ->
         {[res |-> Panic, fut |-> f, resp |-> r, stream |-> NoStream]}
    [] Timeout_poll(f.timeout, t) ->
         {[res |-> Err("TimedOut"), fut |-> f, resp |-> r,
           stream |-> NoStream]}
    [] OTHER ->
         { IF rp.res.kind = "NotReady"
           THEN FutureTwitterStream_poll_not_ready(f, rp, t)
           ELSE FutureTwitterStream_poll_ready(f, rp) :
             rp \in ResponseFuture_poll(r) }

\* FutureTwitterStream::poll, as the set of its possible outcomes: the
\* result, the future and the response after it, and the stream it makes.
\* A connector's error is taken out of the future and returned; polling
\* after that panics ("cannot poll FutureTwitterStream twice").
FutureTwitterStream_poll(f, r, t) ==
  CASE f.inner = "ErrSome" ->
         {[res |-> Err("Tls"), fut |-> [f EXCEPT !.inner = "ErrNone"],
           resp |-> r, stream |-> NoStream]}
    [] f.inner = "ErrNone" ->
         {[res |-> Panic, fut |-> f, resp |-> r, stream |-> NoStream]}
    [] OTHER ->
         { IF rp.res.kind = "NotReady"
           THEN FutureTwitterStream_poll_not_ready(f, rp, t)
           ELSE FutureTwitterStream_poll_ready(f, rp) :
             rp \in ResponseFuture_poll(r) }

(***************************************************************************)
(* impl Stream for TwitterStream                                           *)
(***************************************************************************)

\* Body::poll: the next chunk, the end of the body, or nothing yet.
Body_poll(bd) ==
  IF bd.chunks # <<>>
  THEN [res |-> Result("Chunk", "", Head(bd.chunks)),
        body |-> [bd EXCEPT !.chunks = Tail(@)]]
  ELSE [res |-> IF bd.ended THEN Result("End", "", <<>>) ELSE NotReady,
        body |-> bd]

\* TimeoutStream::poll (util.rs): the read is polled, and the deadline when
\* the read has nothing.  A chunk restarts the deadline; a deadline that
\* has passed ends the stream with the timeout, and polling after that is
\* an error of the caller.
TimeoutStream_poll(st, bd, t) ==
  IF st.timed_out THEN [res |-> Panic, stream |-> st, body |-> bd]
  ELSE LET rd == Body_poll(bd) IN
    CASE rd.res.kind = "Chunk" ->
           [res |-> rd.res,
            stream |-> [st EXCEPT !.timeout = Timeout_reset(@, t)],
            body |-> rd.body]
      [] rd.res.kind = "End" -> [res |-> rd.res, stream |-> st, body |-> bd]
      [] OTHER ->
           IF Timeout_poll(st.timeout, t)
           THEN [res |-> Err("TimedOut"),
                 stream |-> [st EXCEPT !.timed_out = TRUE], body |-> bd]
           ELSE [res |-> NotReady, stream |-> st, body |-> bd]

\* The place of the first newline in the buffer, 0 when it has none.
RECURSIVE FindNewline(_, _)
FindNewline(buf, i) ==
  IF i > Len(buf) THEN 0
  ELSE IF buf[i] = 10 THEN i
  ELSE FindNewline(buf, i + 1)

\* The line before the newline at i, without one trailing carriage return.
LineBefore(buf, i) ==
  IF i > 1 /\ buf[i - 1] = 13 THEN SubSeq(buf, 1, i - 2)
  ELSE SubSeq(buf, 1, i - 1)

\* The lines, with what the buffer holds at the end of the source given
\* as a last line.
RECURSIVE Lines_poll_YieldsRest(_, _, _)
Lines_poll_YieldsRest(st, bd, t) ==
  IF st.exhausted THEN [res |-> Panic, stream |-> st, body |-> bd]
  ELSE LET i == FindNewline(st.buf, 1) IN
    IF i > 0
    THEN [res |-> Result("Line", "", LineBefore(st.buf, i)),
          stream |-> [st EXCEPT !.buf = SubSeq(@, i + 1, Len(@))],
          body |-> bd]
    ELSE LET rd == TimeoutStream_poll(st, bd, t) IN
      CASE rd.res.kind = "Chunk" ->
             Lines_poll_YieldsRest([rd.stream EXCEPT !.buf = @ \o rd.res.val],
                                   rd.body, t)
        [] rd.res.kind = "End" ->
             IF st.buf # <<>>
             THEN [res |-> Result("Line", "", st.buf),
                   stream |-> [rd.stream EXCEPT !.buf = <<>>],
                   body |-> rd.body]
             ELSE [res |-> rd.res,
                   stream |-> [rd.stream EXCEPT !.exhausted = TRUE],
                   body |-> rd.body]
        [] OTHER -> rd

\* Lines::poll (util.rs): the next line of the buffer, reading chunks into
\* the buffer until it holds one.  The end of the source ends the lines and
\* drops what the buffer holds; polling after that is an error of the
\* caller.
RECURSIVE Lines_poll(_, _, _)
Lines_poll(st, bd, t) ==
  IF st.exhausted THEN [res |-> Panic, stream |-> st, body |-> bd]
  ELSE LET i == FindNewline(st.buf, 1) IN
    IF i > 0
    THEN [res |-> Result("Line", "", LineBefore(st.buf, i)),
          stream |-> [st EXCEPT !.buf = SubSeq(@, i + 1, Len(@))],
          body |-> bd]
    ELSE LET rd == TimeoutStream_poll(st, bd, t) IN
      CASE rd.res.kind = "Chunk" ->
             Lines_poll([rd.stream EXCEPT !.buf = @ \o rd.res.val],
                        rd.body, t)
        [] rd.res.kind = "End" ->
             [res |-> rd.res,
              stream |-> [rd.stream EXCEPT !.buf = <<>>, !.exhausted = TRUE],
              body |-> rd.body]
        [] OTHER -> rd

\* c == b'\n' || c == b'\r' || c == b' ' || c == b'\t', for all c of line.
all_ws_EmptyOnly(line) == line = <<>>

all_ws(line) == \A i \in 1..Len(line) : line[i] \in {10, 13, 32, 9}

IsContinuation(c) == c \in 128..191

\* JsonStr::from_utf8 accepts the line: it is well-formed UTF-8, with no
\* overlong form, no surrogate and nothing above U+10FFFF.
RECURSIVE from_utf8_ok(_)
from_utf8_ok(s) ==
  IF s = <<>> THEN TRUE
  ELSE LET b == s[1]
           n == Len(s)
           More(k) == from_utf8_ok(SubSeq(s, k + 1, n)) IN
    CASE b < 128 -> More(1)
      [] b \in 194..223 -> n >= 2 /\ IsContinuation(s[2]) /\ More(2)
      [] b \in 224..239 ->
           /\ n >= 3
           /\ s[2] \in (IF b = 224 THEN 160..191
                        ELSE IF b = 237 THEN 128..159 ELSE 128..191)
           /\ IsContinuation(s[3])
           /\ More(3)
      [] b \in 240..244 ->
           /\ n >= 4
           /\ s[2] \in (IF b = 240 THEN 144..191
                        ELSE IF b = 244 THEN 128..143 ELSE 128..191)
           /\ IsContinuation(s[3])
           /\ IsContinuation(s[4])
           /\ More(4)
      [] OTHER -> FALSE

\* try_ready! and None => return Ok(None.into()): what is not a line (not
\* ready, an error, the end) is returned as it is.
TwitterStream_poll_no_line_EndIsError(rd) ==
  IF rd.res.kind = "End" THEN [rd EXCEPT !.res = Err("Hyper")] ELSE rd

TwitterStream_poll_no_line(rd) == rd

\* The poll without the loop: after a line of whitespace it returns that
\* nothing is ready.
TwitterStream_poll_NoLoop(st, bd, t) ==
  LET rd == Lines_poll(st, bd, t) IN
    IF rd.res.kind = "Line"
    THEN IF all_ws(rd.res.val)
         THEN [rd EXCEPT !.res = NotReady]
         ELSE IF from_utf8_ok(rd.res.val)
              THEN [rd EXCEPT !.res = Result("Item", "", rd.res.val)]
              ELSE [rd EXCEPT !.res = Result("Err", "Utf8", rd.res.val)]
    ELSE TwitterStream_poll_no_line(rd)

\* TwitterStream::poll: the loop over the lines, which passes over a line
\* of whitespace and returns any other line, as a message when it is UTF-8
\* and as Error::Utf8 when it is not.
RECURSIVE TwitterStream_poll(_, _, _)
TwitterStream_poll(st, bd, t) ==
  LET rd == Lines_poll(st, bd, t) IN
    IF rd.res.kind = "Line"
    THEN IF all_ws(rd.res.val)
         THEN TwitterStream_poll(rd.stream, rd.body, t)
         ELSE IF from_utf8_ok(rd.res.val)
              THEN [rd EXCEPT !.res = Result("Item", "", rd.res.val)]
              ELSE [rd EXCEPT !.res = Result("Err", "Utf8", rd.res.val)]
    ELSE TwitterStream_poll_no_line(rd)

(***************************************************************************)
(* The session: a future from listen, the server and the caller's polls    *)
(***************************************************************************)

MaxTime == 3

MaxChunks == 3

\* The timeouts of the builder: None, and one and two units of time.
Timeouts == {<<>>, <<1>>, <<2>>}

\* The statuses of the response.
Statuses == {200, 201, 404}

\* The errors of the request: two that differ.
HyperErrors == {1, 2}

\* The chunks of the body: an empty line and a line of whitespace, a
\* message, and the two bytes of one character, the second with a newline,
\* which are not UTF-8 when they come apart.
Chunks == { <<10, 32, 13, 10>>, <<97, 10>>, <<195>>, <<169, 10>> }

Init ==
  /\ \E timeout \in Timeouts, connector_ok \in BOOLEAN :
       /\ builder = [DefaultBuilder EXCEPT !.timeout = timeout]
       /\ fut = listen(builder, connector_ok, 0)
       /\ resp = IF connector_ok THEN PendingResponse ELSE NoResponse
       /\ envLog = [NoEnvLog EXCEPT
                      !.requests = IF connector_ok THEN 1 ELSE 0]
  /\ qb = connect_query(builder)
  /\ calls = <<>>
  /\ outcome = NotBuilt
  /\ request = NoRequest
  /\ now = 0
  /\ body = NoBody
  /\ stream = NoStream
  /\ panicked = FALSE
  /\ futLog = NoFutLog
  /\ streamLog = NoStreamLog
  /\ encoding = NoEncoding

\* Time passes.
Tick ==
  /\ ~panicked
  /\ now < MaxTime
  /\ now' = now + 1
  /\ UNCHANGED <<encoderVars, signerVars, builderVars, resp, body, fut, stream, panicked,
                 futLog, streamLog, envLog>>

\* The response arrives, with a status.
RespArrive ==
  /\ ~panicked
  /\ resp.state = "pending"
  /\ \E status \in Statuses :
       resp' = [state |-> "ready", status |-> status, error |-> 0]
  /\ envLog' = [envLog EXCEPT
                  !.firedFirst = fut.timeout.armed
                                   /\ now > fut.timeout.deadline]
  /\ UNCHANGED <<encoderVars, signerVars, builderVars, now, body, fut, stream, panicked,
                 futLog, streamLog>>

\* The request fails, with one of the errors of the transport.
RespFail ==
  /\ ~panicked
  /\ resp.state = "pending"
  /\ \E error \in HyperErrors :
       resp' = [resp EXCEPT !.state = "failed", !.error = error]
  /\ UNCHANGED <<encoderVars, signerVars, builderVars, now, body, fut, stream, panicked,
                 futLog, streamLog, envLog>>

BodyOpen ==
  /\ ~panicked
  /\ resp.state \in {"ready", "taken"}
  /\ resp.status = StatusCode_OK
  /\ ~body.ended

\* A chunk of the body arrives.
BodyChunk ==
  /\ BodyOpen
  /\ Len(envLog.received) < MaxChunks
  /\ \E c \in Chunks :
       /\ body' = [body EXCEPT !.chunks = Append(@, c)]
       /\ envLog' = [envLog EXCEPT !.received = Append(@, c)]
  /\ UNCHANGED <<encoderVars, signerVars, builderVars, now, resp, fut, stream, panicked,
                 futLog, streamLog>>

\* The body ends.
BodyEnd ==
  /\ BodyOpen
  /\ body' = [body EXCEPT !.ended = TRUE]
  /\ UNCHANGED <<encoderVars, signerVars, builderVars, now, resp, fut, stream, panicked,
                 futLog, streamLog, envLog>>

\* The caller polls the future.
PollFuture ==
  /\ ~panicked
  /\ fut.inner # "NotListening"
  /\ \E p \in FutureTwitterStream_poll(fut, resp, now) :
       /\ fut' = p.fut
       /\ resp' = p.resp
       /\ stream' = IF p.res.kind = "Stream" THEN p.stream ELSE stream
       /\ panicked' = (p.res.kind = "Panic")
       /\ futLog' =
            [first |-> IF futLog.first = NoResult /\ p.res # NotReady
                       THEN p.res ELSE futLog.first,
             errs |-> IF p.res.kind = "Err"
                      THEN futLog.errs \cup {p.res} ELSE futLog.errs,
             resolvedAfter |-> IF p.res.kind = "Stream"
                               THEN futLog.errs ELSE futLog.resolvedAfter]
  /\ UNCHANGED <<encoderVars, signerVars, builderVars, now, body, streamLog, envLog>>

\* The caller polls the stream.
PollStream ==
  /\ ~panicked
  /\ stream.exists
  /\ \E p \in {TwitterStream_poll(stream, body, now)} :
       /\ stream' = p.stream
       /\ body' = p.body
       /\ panicked' = (p.res.kind = "Panic")
       /\ streamLog' =
            [last |-> p.res,
             armedAt |-> IF p.body # body THEN now ELSE streamLog.armedAt,
             delivered |-> IF p.res.kind = "Item" \/ p.res.err = "Utf8"
                           THEN Append(streamLog.delivered, p.res)
                           ELSE streamLog.delivered,
             deliveredAtTimeout |-> IF p.res.err = "TimedOut"
                                    THEN Len(streamLog.delivered)
                                    ELSE streamLog.deliveredAtTimeout]
  /\ UNCHANGED <<encoderVars, signerVars, builderVars, now, resp, fut, futLog, envLog>>

Next ==
  \/ Tick
  \/ RespArrive
  \/ RespFail
  \/ BodyChunk
  \/ BodyEnd
  \/ PollFuture
  \/ PollStream

Spec == Init /\ [][Next]_vars

(***************************************************************************)
(* The encoders applied to inputs                                          *)
(***************************************************************************)

\* The length of the texts DoublePercentEncode is applied to.
MaxText == 3

\* The length of the code of HMAC-SHA1 (the assertion of Base64PercentEncode).
DigestLen == 20

\* Every value of a u8.
Bytes == 0..255

\* Bytes of the codes: no bit set, every bit set, 0b1111_1011, 0b1010_0101.
DigestBytes == {0, 255, 251, 165}

\* Codes of DigestLen bytes: the two of the Digests, and every code that is
\* one byte repeated and then another.
DigestInputs ==
  Digests \cup
    { [i \in 1..DigestLen |-> IF i <= k THEN a ELSE b] :
        a \in DigestBytes, b \in DigestBytes, k \in 1..DigestLen }

\* Bytes of the texts: 'a', '~', ' ', '%', 0xC3.
TextBytes == {97, 126, 32, 37, 195}

\* Texts of up to MaxText bytes.
TextInputs ==
  UNION { [1..n -> TextBytes] : n \in 0..MaxText }

\* The values of Twitter's document on creating a signature, of the tests.
\* "xvz1evFS4wEEPTGEFPHBog"
CK ==
  <<120, 118, 122, 49, 101, 118, 70, 83, 52, 119, 69, 69, 80, 84, 71, 69, 70,
    80, 72, 66, 111, 103>>

\* "kAcSOqF21Fu85e7zjz7ZN2U4ZRhfV3WpwPAoE3Z7kBw"
CS ==
  <<107, 65, 99, 83, 79, 113, 70, 50, 49, 70, 117, 56, 53, 101, 55, 122, 106,
    122, 55, 90, 78, 50, 85, 52, 90, 82, 104, 102, 86, 51, 87, 112, 119, 80,
    65, 111, 69, 51, 90, 55, 107, 66, 119>>

\* "370773112-GmHxMAgYyLbNEtIKZeRNFsMKPR9EyMZeS9weJAEb"
AK ==
  <<51, 55, 48, 55, 55, 51, 49, 49, 50, 45, 71, 109, 72, 120, 77, 65, 103, 89,
    121, 76, 98, 78, 69, 116, 73, 75, 90, 101, 82, 78, 70, 115, 77, 75, 80,
    82, 57, 69, 121, 77, 90, 101, 83, 57, 119, 101, 74, 65, 69, 98>>

\* "LswwdoUaIvS8ltyTt5jkRh4J50vUPVVHtR2YPi5kE"
AS ==
  <<76, 115, 119, 119, 100, 111, 85, 97, 73, 118, 83, 56, 108, 116, 121, 84,
    116, 53, 106, 107, 82, 104, 52, 74, 53, 48, 118, 85, 80, 86, 86, 72, 116,
    82, 50, 89, 80, 105, 53, 107, 69>>

\* "kYjzVBB8Y0ZFabxSWbWovY3uYSQ2pTgmZeNu2VS4cg"
NONCE ==
  <<107, 89, 106, 122, 86, 66, 66, 56, 89, 48, 90, 70, 97, 98, 120, 83, 87,
    98, 87, 111, 118, 89, 51, 117, 89, 83, 81, 50, 112, 84, 103, 109, 90, 101,
    78, 117, 50, 86, 83, 52, 99, 103>>

TIMESTAMP == 1318622958

\* The path "/1.1/statuses/sample.json"
SamplePath ==
  <<47, 49, 46, 49, 47, 115, 116, 97, 116, 117, 115, 101, 115, 47, 115, 97,
    109, 112, 108, 101, 46, 106, 115, 111, 110>>

\* "https://stream.twitter.com/1.1/statuses/sample.json".parse()
SampleEndpoint ==
  [EndpointPlain EXCEPT !.path = SamplePath]

EncoderInput(op, input) ==
  [op |-> op, input |-> input, done |-> FALSE, output |-> <<>>]

EncoderOutput(e, output) ==
  [e EXCEPT !.done = TRUE, !.output = output]

InitEncoder ==
  /\ \/ /\ \/ \E b \in Bytes : encoding = EncoderInput("byte", <<b>>)
           \/ \E s \in DigestInputs : encoding = EncoderInput("digest", s)
           \/ \E t \in TextInputs : encoding = EncoderInput("text", t)
        /\ qb = connect_query(DefaultBuilder)
     \/ /\ encoding = EncoderInput("tests::query_builder", <<>>)
        /\ qb = QueryBuilder_new(CS, AS, S_GET, SampleEndpoint,
                                 debug_assertions)
  /\ calls = <<>>
  /\ outcome = NotBuilt
  /\ builder = DefaultBuilder
  /\ request = NoRequest
  /\ NoSession

\* The encoders of one byte: EncodeSet.contains(b), percent_encode_byte(b),
\* double_encode_byte(b).
EncodeByte ==
  /\ encoding.op = "byte"
  /\ ~encoding.done
  /\ LET b == encoding.input[1]
     IN encoding' = EncoderOutput(encoding,
                      [ contains |-> EncodeSet_contains(b),
                        percent_encode_byte |-> percent_encode_byte(b),
                        double_encode_byte |-> double_encode_byte(b) ])
  /\ UNCHANGED <<signerVars, builderVars, sessionVars>>

\* Base64PercentEncode(s).to_string()
EncodeDigest ==
  /\ encoding.op = "digest"
  /\ ~encoding.done
  /\ encoding' = EncoderOutput(encoding, Base64PercentEncode(encoding.input))
  /\ UNCHANGED <<signerVars, builderVars, sessionVars>>

\* percent_encode(t).to_string() and DoublePercentEncode(t).to_string()
EncodeText ==
  /\ encoding.op = "text"
  /\ ~encoding.done
  /\ encoding' = EncoderOutput(encoding,
                   [ percent_encode |-> percent_encode(encoding.input),
                     DoublePercentEncode |->
                       DoublePercentEncode(encoding.input) ])
  /\ UNCHANGED <<signerVars, builderVars, sessionVars>>

\* tests::query_builder: the OAuth parameters and then stall_warnings=true
\* appended to a signer of the sample endpoint, and build, with the code
\* Hmac<Sha1> gives for the text written to it.
tests_query_builder ==
  /\ encoding.op = "tests::query_builder"
  /\ ~encoding.done
  /\ calls' = << CallOfAppendOauthParams(CK, AK, NONCE, TIMESTAMP, FALSE),
                 CallOfAppendEncoded(K_stall_warnings, S_true, S_true, TRUE) >>
  /\ qb' = ApplyCalls(qb, calls')
  /\ \E s \in {HmacSha1(qb'.signing_key, qb'.mac)} :
       outcome' = [built |-> TRUE] @@ build(qb', s)
  /\ encoding' = EncoderOutput(encoding, qb'.mac)
  /\ UNCHANGED <<builderVars, sessionVars>>

NextEncoder ==
  \/ EncodeByte
  \/ EncodeDigest
  \/ EncodeText
  \/ tests_query_builder

SpecEncoder == InitEncoder /\ [][NextEncoder]_vars

(***************************************************************************)
(* C1                                                                      *)
(***************************************************************************)

\* The keys the calls made so far have passed to the builder, in order.
RECURSIVE KeysOf(_)
KeysOf(cs) ==
  IF cs = <<>> THEN <<>> ELSE Head(cs).keys \o KeysOf(Tail(cs))

\* Every key is strictly greater, in byte order, than the key before it.
StrictlyAscending(ks) ==
  \A i \in 1..(Len(ks) - 1) : StrLess(ks[i], ks[i + 1])

\* C1: in a build with debug assertions, a sequence of append,
\* append_encoded and append_oauth_params calls in which some key is not
\* strictly greater than the key appended before it has failed with the
\* assertion; so only strictly ascending key sequences run to completion,
\* and a build is only ever taken of one.
C1_DictionaryOrder ==
  qb.debug =>
    /\ ~StrictlyAscending(KeysOf(calls)) => qb.panicked /\ ~outcome.built
    /\ ~qb.panicked => StrictlyAscending(KeysOf(calls))

\* A debug build in which the third call repeated or went below the key
\* of the second, and failed.
C1_Witness ==
  /\ qb.debug
  /\ Len(calls) = 3
  /\ StrictlyAscending(KeysOf(SubSeq(calls, 1, 2)))
  /\ ~StrictlyAscending(KeysOf(calls))
  /\ qb.panicked

(***************************************************************************)
(* What a request is to carry, for the claims about build_query            *)
(***************************************************************************)

\* A list of numbers or of coordinates joined by commas.
RECURSIVE JoinComma(_)
JoinComma(ts) ==
  IF ts = <<>> THEN <<>>
  ELSE IF Len(ts) = 1 THEN ts[1]
  ELSE Cat(<<ts[1], <<44>>, JoinComma(Tail(ts))>>)

\* The coordinates of a list of boxes, in order.
RECURSIVE Coordinates(_)
Coordinates(locs) ==
  IF locs = <<>> THEN <<>> ELSE Head(locs) \o Coordinates(Tail(locs))

\* The request parameters the settings of b select, each with its value
\* before any encoding.
RequestParams(b) ==
  {[key |-> K_count, raw |-> DisplayInt(b.count[1])] : x \in {1} \cap
      (IF b.count # <<>> THEN {1} ELSE {})}
  \cup {[key |-> K_filter_level, raw |-> b.filter_level] : x \in {1} \cap
      (IF b.filter_level # FilterLevel_None THEN {1} ELSE {})}
  \cup {[key |-> K_follow,
         raw |-> JoinComma([i \in DOMAIN b.follow[1] |->
                              DisplayNat(b.follow[1][i])])] : x \in {1} \cap
      (IF b.follow # <<>> THEN {1} ELSE {})}
  \cup {[key |-> K_language, raw |-> b.language[1]] : x \in {1} \cap
      (IF b.language # <<>> THEN {1} ELSE {})}
  \cup {[key |-> K_locations,
         raw |-> JoinComma(Coordinates(b.locations[1]))] : x \in {1} \cap
      (IF b.locations # <<>> THEN {1} ELSE {})}
  \cup {[key |-> K_replies, raw |-> S_all] : x \in {1} \cap
      (IF b.replies THEN {1} ELSE {})}
  \cup {[key |-> K_stall_warnings, raw |-> S_true] : x \in {1} \cap
      (IF b.stall_warnings THEN {1} ELSE {})}
  \cup {[key |-> K_track, raw |-> b.track[1]] : x \in {1} \cap
      (IF b.track # <<>> THEN {1} ELSE {})}
  \cup {[key |-> K_with, raw |-> b.with[1]] : x \in {1} \cap
      (IF b.with # <<>> THEN {1} ELSE {})}

\* The six OAuth parameters of a request signed with the nonce and
\* timestamp of draw.
OAuthParams(b, draw) ==
  { [key |-> K_oauth_consumer_key, raw |-> b.consumer_key],
    [key |-> K_oauth_nonce, raw |-> draw.nonce],
    [key |-> K_oauth_signature_method, raw |-> S_HMAC_SHA1],
    [key |-> K_oauth_timestamp, raw |-> DisplayNat(draw.timestamp)],
    [key |-> K_oauth_token, raw |-> b.access_key],
    [key |-> K_oauth_version, raw |-> S_1_0] }

\* A set of parameters as a sequence in ascending byte order of the keys.
RECURSIVE SortByKey(_)
SortByKey(ps) ==
  IF ps = {} THEN <<>>
  ELSE LET m == CHOOSE p \in ps :
                  \A o \in ps : o = p \/ StrLess(p.key, o.key)
       IN <<m>> \o SortByKey(ps \ {m})

\* key, mid, enc(raw) for each parameter of the sequence, with sep between
\* every two consecutive ones and nowhere else.
RECURSIVE JoinPairs(_, _, _, _)
JoinPairs(ps, mid, sep, twice) ==
  IF ps = <<>> THEN <<>>
  ELSE LET enc == IF twice
                    THEN percent_encode(percent_encode(ps[1].raw))
                    ELSE percent_encode(ps[1].raw)
       IN Cat(<<ps[1].key, mid, enc,
                IF Len(ps) > 1 THEN sep ELSE <<>>,
                JoinPairs(Tail(ps), mid, sep, twice)>>)

\* The draw of the append_oauth_params call among the calls made.
DrawOf(cs) ==
  LET c == CHOOSE c \in {cs[i] : i \in DOMAIN cs} :
                 c.op = "append_oauth_params"
  IN [nonce |-> c.args[3], timestamp |-> c.args[4]]

\* The signature base string of the request of builder b signed with draw.
BaseString(b, draw) ==
  Cat(<<b.method, <<38>>,
        percent_encode(Cat(<<b.endpoint.scheme, <<58, 47, 47>>,
                             b.endpoint.authority, b.endpoint.path>>)),
        <<38>>,
        JoinPairs(SortByKey(RequestParams(b) \cup OAuthParams(b, draw)),
                  <<37, 51, 68>>, <<37, 50, 54>>, TRUE)>>)

\* The text after the endpoint in the URI of a request that is not a POST
\* (without the "?"), the body of a POST.
OutwardParams(b, r) ==
  IF b.method = S_POST THEN r.body
  ELSE LET n == Len(UriToString(b.endpoint))
       IN IF Len(r.uri) > n /\ r.uri[n + 1] = 63
            THEN SubSeq(r.uri, n + 2, Len(r.uri))
            ELSE SubSeq(r.uri, n + 1, Len(r.uri))

(***************************************************************************)
(* C2, C3, C4                                                              *)
(***************************************************************************)

\* C2: for every combination of the optional settings, build_query appends
\* the request parameters the settings select and the six OAuth parameters
\* as one sequence whose keys are strictly ascending, so the assertion of
\* the dictionary order does not fire and the request is built.
C2_BuildQueryOrder ==
  calls # <<>> =>
    /\ StrictlyAscending(KeysOf(calls))
    /\ {KeysOf(calls)[i] : i \in DOMAIN KeysOf(calls)}
         = {p.key : p \in RequestParams(builder)
                            \cup OAuthParams(builder, DrawOf(calls))}
    /\ ~qb.panicked
    /\ request.sent

\* A request built with parameters on both sides of the OAuth ones: count,
\* follow and locations before, replies and with after.
C2_Witness ==
  /\ request.sent
  /\ builder.count # <<>>
  /\ builder.follow # <<>>
  /\ builder.locations # <<>>
  /\ builder.replies
  /\ builder.with # <<>>
  /\ Len(calls) >= 6

\* C3: for every combination of settings, what new / new_form and
\* build_query have written to the HMAC is METHOD, "&", the percent-encoded
\* scheme://authority/path, "&", and then every parameter (request and
\* OAuth ones merged) as key%3D<value encoded twice> in ascending order of
\* the keys, with "%26" between consecutive parameters and nothing after
\* the last: the last call, and only it, has end = TRUE.
C3_BaseString ==
  request.sent =>
    /\ qb.mac = BaseString(builder, DrawOf(calls))
    /\ \A i \in DOMAIN calls : calls[i].end = (i = Len(calls))

\* A signed GET with a track phrase holding reserved bytes and two ids to
\* follow.
C3_Witness ==
  /\ request.sent
  /\ builder.method = S_GET
  /\ builder.track # <<>>
  /\ builder.follow # <<>> /\ Len(builder.follow[1]) = 2
  /\ builder.language # <<>>

\* C4: for every combination of settings, the query suffix (the form body
\* of a POST) is the request parameters as key=value, values percent-
\* encoded once, in ascending order of the keys, with one "&" between
\* consecutive pairs and none before the first or after the last, and with
\* no OAuth parameter.
C4_OutwardParams ==
  request.sent =>
    OutwardParams(builder, request)
      = JoinPairs(SortByKey(RequestParams(builder)), <<61>>, <<38>>, FALSE)

(***************************************************************************)
(* What a stream is to deliver, for the claims about TwitterStream         *)
(***************************************************************************)

\* The bytes of the body the stream has read: all that was sent but the
\* chunks that wait to be read.
BytesRead ==
  LET sent == Cat(envLog.received)
  IN SubSeq(sent, 1, Len(sent) - Len(Cat(body.chunks)))

\* The bytes the stream has made lines of: those read, but the buffer.
BytesConsumed == SubSeq(BytesRead, 1, Len(BytesRead) - Len(stream.buf))

WithoutCarriageReturn(line) ==
  IF line # <<>> /\ line[Len(line)] = 13
  THEN SubSeq(line, 1, Len(line) - 1) ELSE line

\* The lines of a text: what stands before each newline, cur being the
\* line begun.  What follows the last newline is no line.
RECURSIVE TerminatedLines(_, _)
TerminatedLines(bytes, cur) ==
  IF bytes = <<>> THEN <<>>
  ELSE IF Head(bytes) = 10
       THEN <<WithoutCarriageReturn(cur)>> \o TerminatedLines(Tail(bytes), <<>>)
       ELSE TerminatedLines(Tail(bytes), Append(cur, Head(bytes)))

\* A line of nothing but newline, carriage return, space and tab.
IsHeartbeat(line) == \A i \in 1..Len(line) : line[i] \in {9, 10, 13, 32}

MessageLines(bytes) ==
  SelectSeq(TerminatedLines(bytes, <<>>), LAMBDA l : ~IsHeartbeat(l))

\* C5 as it is stated: what the polls of the stream have returned is one
\* message for each line read that has a byte other than newline, carriage
\* return, space and tab, in the order of arrival, and nothing else.
C5_MessagePerLine ==
  stream.exists =>
    streamLog.delivered =
      [i \in 1..Len(MessageLines(BytesConsumed)) |->
         Result("Item", "", MessageLines(BytesConsumed)[i])]

\* C5, amended: what the polls of the stream have returned is one item for
\* each line read that has a byte other than newline, carriage return,
\* space and tab, in the order of arrival, the line as a message when it is
\* UTF-8 and a decoding error when it is not, and nothing for any other
\* line; and a poll that returns "not ready" or the end has left no line
\* unread.
C5_ItemPerLine ==
  stream.exists =>
    /\ LET lines == MessageLines(BytesConsumed)
       IN streamLog.delivered =
            [i \in 1..Len(lines) |->
               IF from_utf8_ok(lines[i])
               THEN Result("Item", "", lines[i])
               ELSE Result("Err", "Utf8", lines[i])]
    /\ streamLog.last.kind \in {"NotReady", "End"} =>
         Len(streamLog.delivered) = Len(MessageLines(BytesRead))

\* C5: an empty line, a line of spaces, a message, and again an empty line
\* and a line of spaces have been read, and the polls have returned the
\* message and then "not ready".
C5_Witness ==
  /\ envLog.received = << <<10, 32, 13, 10>>, <<97, 10>>, <<10, 32, 13, 10>> >>
  /\ streamLog.delivered = << Result("Item", "", <<97>>) >>
  /\ streamLog.last.kind = "NotReady"

(***************************************************************************)
(* What a future is to resolve to, for the claims about                    *)
(* FutureTwitterStream                                                     *)
(***************************************************************************)

\* The future is connecting: it holds the response's future.
Connecting == fut.inner = "Ok"

\* C6: when the response has arrived with a status other than 200, a poll
\* of the future returns Error::Http with that status and makes no stream;
\* and with such a response there is no stream and no message has been
\* returned.
C6_NonOKStatus ==
  resp.state \in {"ready", "taken"} /\ resp.status \in Statuses \ {200} =>
    /\ Connecting /\ resp.state = "ready" =>
         \A p \in FutureTwitterStream_poll(fut, resp, now) :
           /\ p.res = Result("Err", "Http", <<resp.status>>)
           /\ p.stream = NoStream
    /\ resp.state = "taken" =>
         Result("Err", "Http", <<resp.status>>) \in futLog.errs
    /\ ~stream.exists
    /\ streamLog.delivered = <<>>

\* C6: a response of status 201 has arrived and the poll of the future has
\* returned Error::Http with 201.
C6_Witness ==
  /\ resp = [state |-> "taken", status |-> 201, error |-> 0]
  /\ futLog.first = Result("Err", "Http", <<201>>)

\* The deadline of the connection, counted from listen at time 0, has
\* passed.
ConnectionDeadlinePassed ==
  builder.timeout # <<>> /\ now >= builder.timeout[1]

\* C7 as it is stated: when the deadline of the connection had passed
\* before the response arrived, the future has not resolved to a stream,
\* and what it has failed with is Error::TimedOut.
C7_DeadlineBeforeResponse ==
  envLog.firedFirst =>
    /\ ~stream.exists
    /\ futLog.first \in {NoResult, Err("TimedOut")}

\* C7, amended: while connecting, a poll that finds the response not
\* arrived and the deadline passed returns Error::TimedOut and makes no
\* stream; a poll returns Error::TimedOut only then; and a poll that finds
\* the response arrived acts on the response, whether or not the deadline
\* had passed before it arrived.
C7_PollAtDeadline ==
  Connecting /\ resp.state \in {"pending", "ready"} =>
    \A p \in FutureTwitterStream_poll(fut, resp, now) :
      /\ resp.state = "pending" /\ ConnectionDeadlinePassed =>
           p.res = Err("TimedOut") /\ p.stream = NoStream
      /\ p.res = Err("TimedOut") =>
           resp.state = "pending" /\ ConnectionDeadlinePassed
      /\ resp.state = "ready" =>
           p.res = IF resp.status = 200 THEN Result("Stream", "", <<>>)
                   ELSE Result("Err", "Http", <<resp.status>>)

\* C7: the deadline has passed with the response not arrived, and the poll
\* of the future has returned Error::TimedOut.
C7_Witness ==
  /\ resp.state = "pending"
  /\ ConnectionDeadlinePassed
  /\ futLog.first = Err("TimedOut")

\* The deadline of the stream's timer, counted from the last time a chunk
\* was read, or from listen when none has been, has passed.
IdleDeadlinePassed ==
  builder.timeout # <<>> /\ now >= streamLog.armedAt + builder.timeout[1]

\* The stream is open and has nothing to give: no line in the buffer but
\* heartbeats, no chunk to read, and the body has not ended.
NoDataArriving ==
  /\ stream.exists /\ ~stream.timed_out /\ ~stream.exhausted
  /\ MessageLines(stream.buf) = <<>>
  /\ body.chunks = <<>> /\ ~body.ended

\* C8: a poll of an open stream returns Error::TimedOut only when there is
\* no data and the configured duration has passed since the last data; a
\* poll made with no data and the duration passed returns Error::TimedOut;
\* and no message is returned after the timeout.
C8_IdleTimeout ==
  /\ stream.exists /\ ~stream.timed_out /\ ~stream.exhausted =>
       /\ TwitterStream_poll(stream, body, now).res = Err("TimedOut") =>
            NoDataArriving /\ IdleDeadlinePassed
       /\ NoDataArriving /\ IdleDeadlinePassed =>
            TwitterStream_poll(stream, body, now).res = Err("TimedOut")
  /\ streamLog.last = Err("TimedOut") => stream.timed_out
  /\ stream.timed_out =>
       Len(streamLog.delivered) = streamLog.deliveredAtTimeout

\* C8: the stream has read a chunk after the start and returned a message,
\* and a later poll has returned Error::TimedOut.
C8_Witness ==
  /\ stream.timed_out
  /\ streamLog.last = Err("TimedOut")
  /\ streamLog.armedAt > 0
  /\ Len(streamLog.delivered) > 0

\* C9: once a poll of the future has returned an error, no later poll
\* resolves to a stream, and the request is made once.
C9_FailureIsTerminal ==
  /\ futLog.resolvedAfter = {}
  /\ envLog.requests <= 1

\* C10: after a decoding error, no poll of the stream returns a message.
C10_DecodingErrorTerminates ==
  \A i, j \in 1..Len(streamLog.delivered) :
    i < j /\ streamLog.delivered[i].kind = "Err" =>
      streamLog.delivered[j].kind # "Item"

(***************************************************************************)
(* C11, C12                                                                *)
(***************************************************************************)

\* C11: once a poll of the future has returned the connector's error or
\* Error::TimedOut (the response's future is then still to be polled, or
\* was never made), every poll of the future is a panic, and none returns
\* a result or an error.
C11_RepollPanics ==
  (~panicked /\ futLog.first \in {Err("Tls"), Err("TimedOut")}
     /\ resp.state # "taken") =>
    \A p \in FutureTwitterStream_poll(fut, resp, now) : p.res = Panic

\* The items of a text: for each of its lines that is no heartbeat, in
\* order, the message, or the decoding error when the line is not UTF-8.
ItemsOf(bytes) ==
  LET lines == MessageLines(bytes)
  IN [i \in 1..Len(lines) |->
        IF from_utf8_ok(lines[i]) THEN Result("Item", "", lines[i])
        ELSE Result("Err", "Utf8", lines[i])]

\* The stream is open: it has been made and has neither timed out nor
\* ended.
StreamOpen == stream.exists /\ ~stream.timed_out /\ ~stream.exhausted

\* The body has ended, and what the stream has not made lines of holds
\* nothing but heartbeats and a line without its newline.
BodyAtEnd ==
  body.ended /\ MessageLines(stream.buf \o Cat(body.chunks)) = <<>>

\* C12: a poll of an open stream returns Ok(None), and no error, when the
\* body has ended and every line of it has been returned, and only then;
\* and when a poll has returned Ok(None), the polls before it have returned
\* an item for every line received that is no heartbeat.
C12_EndOfBody ==
  /\ StreamOpen =>
       (TwitterStream_poll(stream, body, now).res = Result("End", "", <<>>)
          <=> BodyAtEnd)
  /\ streamLog.last.kind = "End" =>
       /\ body.ended
       /\ streamLog.delivered = ItemsOf(Cat(envLog.received))

\* C12: a message and then the start of a line have been received, the body
\* has ended, and the polls have returned the message and then Ok(None).
C12_Witness ==
  /\ envLog.received = << <<97, 10>>, <<195>> >>
  /\ streamLog.delivered = << Result("Item", "", <<97>>) >>
  /\ streamLog.last = Result("End", "", <<>>)

(***************************************************************************)
(* C13, C14, C15                                                           *)
(***************************************************************************)

\* The step is an accepted call of the method op on the builder.
AcceptedCall(op) ==
  /\ calls' # calls
  /\ calls'[Len(calls')].op = op
  /\ ~qb'.panicked

\* C13: an accepted call of append_oauth_params, of a builder of either
\* mode and after any calls, leaves the outward query or body text as it
\* was before the call.
C13_OAuthParamsLeaveQuery ==
  [][AcceptedCall("append_oauth_params") => qb'.query = qb.query]_vars

\* key="value"
HeaderElement(k, v) == Cat(<<k, <<61, 34>>, v, <<34>>>>)

\* The six OAuth parameters of a call of append_oauth_params as elements of
\* the header, in the listed order, each value percent-encoded.
OAuthElements(c) ==
  << HeaderElement(K_oauth_consumer_key, percent_encode(c.args[1])),
     HeaderElement(K_oauth_nonce, percent_encode(c.args[3])),
     HeaderElement(K_oauth_signature_method, percent_encode(S_HMAC_SHA1)),
     HeaderElement(K_oauth_timestamp, percent_encode(DisplayNat(c.args[4]))),
     HeaderElement(K_oauth_token, percent_encode(c.args[2])),
     HeaderElement(K_oauth_version, percent_encode(S_1_0)) >>

\* The elements, each followed by a comma.
RECURSIVE CommaAfterEach(_)
CommaAfterEach(es) ==
  IF es = <<>> THEN <<>> ELSE Head(es) \o <<44>> \o CommaAfterEach(Tail(es))

\* The calls of append_oauth_params among the calls made.
OAuthCalls == SelectSeq(calls, LAMBDA c : c.op = "append_oauth_params")

\* The header before finalize: "OAuth ", and the six elements once
\* append_oauth_params has been called.
HeaderBeforeBuild ==
  S_OAuth \o (IF OAuthCalls = <<>> THEN <<>>
              ELSE CommaAfterEach(OAuthElements(OAuthCalls[1])))

\* C14: the header of an accepted sequence of calls is "OAuth " and, once
\* append_oauth_params has been called, its six parameters in the listed
\* order, each as key="percent-encoded value" followed by a comma, and
\* nothing of the request's parameters and no oauth_signature; finalize
\* adds oauth_signature="..." once, as the last element.
C14_Header ==
  ~qb.panicked =>
    /\ Len(OAuthCalls) <= 1
    /\ qb.header = HeaderBeforeBuild
    /\ outcome.built =>
         \E s \in Digests :
           outcome.header =
             HeaderBeforeBuild
               \o HeaderElement(S_oauth_signature, Base64PercentEncode(s))

\* C14: finalize has been called after three accepted calls, one of them
\* append_oauth_params with a consumer key that is not its own percent
\* encoding.
C14_Witness ==
  /\ outcome.built
  /\ Len(calls) = 3
  /\ OAuthCalls # <<>>
  /\ OAuthCalls[1].args[1] # percent_encode(OAuthCalls[1].args[1])

\* C15: an accepted call append(key, value, is_last) adds to the outward
\* text, after the "?" a query-mode builder writes before its first
\* parameter, key=percent_encode(value), and "&" exactly when is_last is
\* false; it adds to the base string key%3D and the value percent-encoded
\* twice, and "%26" exactly when is_last is false; and it leaves the header
\* as it was.
C15_Append ==
  [][AcceptedCall("append") =>
       LET c == calls'[Len(calls')]
           k == c.keys[1]
           v == c.args[1]
       IN /\ qb'.query =
               Cat(<<qb.query,
                     IF qb.will_append_question_mark THEN <<63>> ELSE <<>>,
                     k, <<61>>, percent_encode(v),
                     IF c.end THEN <<>> ELSE <<38>> >>)
          /\ qb'.mac =
               Cat(<<qb.mac, k, <<37, 51, 68>>,
                     percent_encode(percent_encode(v)),
                     IF c.end THEN <<>> ELSE <<37, 50, 54>> >>)
          /\ qb'.header = qb.header]_vars

\* C15: append has been called and accepted twice, with a value that is not
\* its own percent encoding, first with is_last false and then with is_last
\* true.
C15_Witness ==
  /\ ~qb.panicked
  /\ Len(calls) = 2
  /\ calls[1].op = "append" /\ ~calls[1].end
  /\ calls[2].op = "append" /\ calls[2].end
  /\ calls[2].args[1] # percent_encode(calls[2].args[1])

(***************************************************************************)
(* C16: Base64PercentEncode                                                *)
(***************************************************************************)

\* The alphabet of standard base64: A-Z, a-z, 0-9, '+', '/'.
Base64Alphabet ==
  [n \in 1..26 |-> 64 + n] \o [n \in 1..26 |-> 96 + n]
    \o [n \in 1..10 |-> 47 + n] \o <<43, 47>>

\* The bits of bytes, most significant first, padded with zero bits to a
\* whole number of groups of 6.
PaddedBits(bytes) ==
  LET bits == [i \in 1..(8 * Len(bytes)) |->
                 (bytes[((i - 1) \div 8) + 1] \div (2 ^ (7 - ((i - 1) % 8)))) % 2]
      pad == (6 - (Len(bits) % 6)) % 6
  IN bits \o [i \in 1..pad |-> 0]

\* The number the g-th group of 6 bits holds.
SixBits(bits, g) ==
  32 * bits[6 * g - 5] + 16 * bits[6 * g - 4] + 8 * bits[6 * g - 3]
    + 4 * bits[6 * g - 2] + 2 * bits[6 * g - 1] + bits[6 * g]

\* The symbols of the standard base64 encoding of bytes, before padding.
StandardBase64Symbols(bytes) ==
  LET bits == PaddedBits(bytes)
  IN [g \in 1..(Len(bits) \div 6) |-> Base64Alphabet[SixBits(bits, g) + 1]]

\* The standard base64 encoding of bytes: '=' pads the symbols to a
\* multiple of 4.
StandardBase64(bytes) ==
  LET symbols == StandardBase64Symbols(bytes)
  IN symbols \o [i \in 1..((4 - (Len(symbols) % 4)) % 4) |-> 61]

\* One base64 symbol as the encoder writes it: '+' as %2B, '/' as %2F.
EscapedSymbol(c) ==
  IF c = 43 THEN <<37, 50, 66>>
  ELSE IF c = 47 THEN <<37, 50, 70>>
  ELSE <<c>>

\* C16: for every input of 20 bytes, Base64PercentEncode gives the percent
\* encoding of the standard base64 encoding of the input: 27 symbols of 6
\* bits each, the last holding the final 4 bits and two zero bits, '+'
\* written %2B and '/' written %2F, and then the one '=' written %3D.
C16_Base64PercentEncode ==
  (encoding.op = "digest" /\ encoding.done) =>
    LET symbols == StandardBase64Symbols(encoding.input)
    IN /\ Len(encoding.input) = DigestLen
       /\ encoding.output = percent_encode(StandardBase64(encoding.input))
       /\ Len(symbols) = 27
       /\ encoding.output =
            Cat([g \in 1..27 |-> EscapedSymbol(symbols[g])]) \o <<37, 51, 68>>

\* The code 0xFB .. 0xFB 0xFF .. 0xFF has been encoded: '+' and '/' occur,
\* and the last symbol is '8', the bits 1111 and two zero bits.
C16_Witness ==
  /\ encoding.op = "digest"
  /\ encoding.done
  /\ encoding.input = [i \in 1..DigestLen |-> IF i <= 10 THEN 251 ELSE 255]
  /\ SubSeq(encoding.output, Len(encoding.output) - 3,
            Len(encoding.output)) = <<56, 37, 51, 68>>

(***************************************************************************)
(* C17, C18: the encoders of one byte                                      *)
(***************************************************************************)

\* The encoders have been applied to one byte.
ByteEncoded == encoding.op = "byte" /\ encoding.done

\* C17: for every byte b, double_encode_byte(b) is
\* percent_encode(percent_encode_byte(b)): the text "%25" and then the two
\* uppercase hexadecimal digits of b.
C17_DoubleEncodeByte ==
  ByteEncoded =>
    LET b == encoding.input[1]
        hex == <<48, 49, 50, 51, 52, 53, 54, 55, 56, 57,
                 65, 66, 67, 68, 69, 70>>
    IN /\ encoding.output.double_encode_byte =
            percent_encode(encoding.output.percent_encode_byte)
       /\ encoding.output.double_encode_byte =
            <<37, 50, 53, hex[(b \div 16) + 1], hex[(b % 16) + 1]>>

\* The byte 0xAF has been encoded, to "%25AF".
C17_Witness ==
  /\ ByteEncoded
  /\ encoding.input = <<175>>
  /\ encoding.output.double_encode_byte = <<37, 50, 53, 65, 70>>

\* A-Z, a-z, 0-9, '-', '.', '_', '~'
Unreserved(b) ==
  \/ b \in 65..90
  \/ b \in 97..122
  \/ b \in 48..57
  \/ b \in {45, 46, 95, 126}

\* C18: for every byte b, EncodeSet.contains(b) is false exactly when b is
\* unreserved, so percent_encode copies the unreserved bytes and escapes
\* every other byte.
C18_EncodeSet ==
  ByteEncoded =>
    LET b == encoding.input[1]
    IN /\ encoding.output.contains <=> ~Unreserved(b)
       /\ percent_encode(<<b>>) =
            IF Unreserved(b) THEN <<b>>
            ELSE encoding.output.percent_encode_byte

\* The encoders have been applied to '~', which is not escaped.
C18_Witness ==
  /\ ByteEncoded
  /\ encoding.input = <<126>>
  /\ ~encoding.output.contains

(***************************************************************************)
(* C19: QueryBuilder::new_                                                 *)
(***************************************************************************)

\* text begins with prefix.
StartsWith(text, prefix) ==
  /\ Len(prefix) <= Len(text)
  /\ SubSeq(text, 1, Len(prefix)) = prefix

\* part occurs in text.
OccursIn(part, text) ==
  \E i \in 0..(Len(text) - Len(part)) :
    SubSeq(text, i + 1, i + Len(part)) = part

\* The URI the signer of SpecSigner is made for, in full:
\* https://stream.twitter.com/1.1/statuses/filter.json?delimited=length
TargetUriText ==
  <<104, 116, 116, 112, 115, 58, 47, 47, 115, 116, 114, 101, 97, 109, 46,
    116, 119, 105, 116, 116, 101, 114, 46, 99, 111, 109, 47, 49, 46, 49, 47,
    115, 116, 97, 116, 117, 115, 101, 115, 47, 102, 105, 108, 116, 101, 114,
    46, 106, 115, 111, 110, 63, 100, 101, 108, 105, 109, 105, 116, 101, 100,
    61, 108, 101, 110, 103, 116, 104>>

\* Its scheme, authority and path, percent encoded:
\* https%3A%2F%2Fstream.twitter.com%2F1.1%2Fstatuses%2Ffilter.json
TargetUriSigned ==
  <<104, 116, 116, 112, 115, 37, 51, 65, 37, 50, 70, 37, 50, 70, 115, 116,
    114, 101, 97, 109, 46, 116, 119, 105, 116, 116, 101, 114, 46, 99, 111,
    109, 37, 50, 70, 49, 46, 49, 37, 50, 70, 115, 116, 97, 116, 117, 115,
    101, 115, 37, 50, 70, 102, 105, 108, 116, 101, 114, 46, 106, 115, 111,
    110>>

\* C19: a signer made with q = true starts its outward text as the whole
\* target URI, one made with q = false starts it empty; in both the text
\* signed starts with the method, '&', the percent-encoded scheme, authority
\* and path of the URI and '&', and the query of the URI is in no text
\* signed.  (SpecSigner makes the signer with q = true for GET and with
\* q = false for POST.)
C19_New ==
  ~qb.panicked =>
    LET q == StartsWith(qb.mac, S_GET)
    IN /\ calls = <<>> =>
            qb.query = IF q THEN TargetUriText ELSE <<>>
       /\ StartsWith(qb.mac,
            Cat(<<IF q THEN S_GET ELSE S_POST, <<38>>, TargetUriSigned,
                  <<38>> >>))
       /\ calls = <<>> =>
            qb.mac = Cat(<<IF q THEN S_GET ELSE S_POST, <<38>>,
                           TargetUriSigned, <<38>> >>)
       /\ ~OccursIn(EndpointWithQuery.query, qb.mac)

\* A signer made with q = true, before any call: its outward text is the
\* URI with its query.
C19_Witness ==
  /\ calls = <<>>
  /\ ~outcome.built
  /\ qb.will_append_question_mark
  /\ qb.query = TargetUriText
  /\ OccursIn(EndpointWithQuery.query, qb.query)

(***************************************************************************)
(* C20: the published example                                              *)
(***************************************************************************)

\* "OGQqcy4l5xWBFX7t0DrkP5%2FD0rM%3D"
ExpectedSignature ==
  <<79, 71, 81, 113, 99, 121, 52, 108, 53, 120, 87, 66, 70, 88, 55, 116, 48,
    68, 114, 107, 80, 53, 37, 50, 70, 68, 48, 114, 77, 37, 51, 68>>

\* "https://stream.twitter.com/1.1/statuses/sample.json?stall_warnings=true"
ExpectedUri ==
  <<104, 116, 116, 112, 115, 58, 47, 47, 115, 116, 114, 101, 97, 109, 46, 116,
    119, 105, 116, 116, 101, 114, 46, 99, 111, 109, 47, 49, 46, 49, 47, 115,
    116, 97, 116, 117, 115, 101, 115, 47, 115, 97, 109, 112, 108, 101, 46,
    106, 115, 111, 110, 63, 115, 116, 97, 108, 108, 95, 119, 97, 114, 110,
    105, 110, 103, 115, 61, 116, 114, 117, 101>>

\* expected_header of tests::query_builder
ExpectedHeader ==
  <<79, 65, 117, 116, 104, 32, 111, 97, 117, 116, 104, 95, 99, 111, 110, 115,
    117, 109, 101, 114, 95, 107, 101, 121, 61, 34, 120, 118, 122, 49, 101,
    118, 70, 83, 52, 119, 69, 69, 80, 84, 71, 69, 70, 80, 72, 66, 111, 103,
    34, 44, 111, 97, 117, 116, 104, 95, 110, 111, 110, 99, 101, 61, 34, 107,
    89, 106, 122, 86, 66, 66, 56, 89, 48, 90, 70, 97, 98, 120, 83, 87, 98, 87,
    111, 118, 89, 51, 117, 89, 83, 81, 50, 112, 84, 103, 109, 90, 101, 78,
    117, 50, 86, 83, 52, 99, 103, 34, 44, 111, 97, 117, 116, 104, 95, 115,
    105, 103, 110, 97, 116, 117, 114, 101, 95, 109, 101, 116, 104, 111, 100,
    61, 34, 72, 77, 65, 67, 45, 83, 72, 65, 49, 34, 44, 111, 97, 117, 116,
    104, 95, 116, 105, 109, 101, 115, 116, 97, 109, 112, 61, 34, 49, 51, 49,
    56, 54, 50, 50, 57, 53, 56, 34, 44, 111, 97, 117, 116, 104, 95, 116, 111,
    107, 101, 110, 61, 34, 51, 55, 48, 55, 55, 51, 49, 49, 50, 45, 71, 109,
    72, 120, 77, 65, 103, 89, 121, 76, 98, 78, 69, 116, 73, 75, 90, 101, 82,
    78, 70, 115, 77, 75, 80, 82, 57, 69, 121, 77, 90, 101, 83, 57, 119, 101,
    74, 65, 69, 98, 34, 44, 111, 97, 117, 116, 104, 95, 118, 101, 114, 115,
    105, 111, 110, 61, 34, 49, 46, 48, 34, 44, 111, 97, 117, 116, 104, 95,
    115, 105, 103, 110, 97, 116, 117, 114, 101, 61, 34, 79, 71, 81, 113, 99,
    121, 52, 108, 53, 120, 87, 66, 70, 88, 55, 116, 48, 68, 114, 107, 80, 53,
    37, 50, 70, 68, 48, 114, 77, 37, 51, 68, 34>>

\* C20: for the published example (GET, the sample endpoint, the keys and
\* secrets, the nonce and the timestamp of the document, the OAuth
\* parameters appended first and stall_warnings=true last), build returns a
\* header whose oauth_signature is OGQqcy4l5xWBFX7t0DrkP5%2FD0rM%3D, and the
\* URI of the endpoint followed by ?stall_warnings=true.
C20_PublishedExample ==
  (encoding.op = "tests::query_builder" /\ encoding.done) =>
    /\ outcome.built
    /\ outcome.header = ExpectedHeader
    /\ outcome.header =
         Cat(<<qb.header, S_oauth_signature, <<61, 34>>, ExpectedSignature,
               <<34>> >>)
    /\ outcome.query = ExpectedUri

\* The example has been run, and 351 bytes were signed.
C20_Witness ==
  /\ encoding.op = "tests::query_builder"
  /\ encoding.done
  /\ outcome.built
  /\ Len(calls) = 2
  /\ Len(encoding.output) = 351

(***************************************************************************)
(* C21: the timeout of the builder                                         *)
(***************************************************************************)

\* A poll of the future, or of the stream, made in this state may return
\* the timeout.
MayTimeOut ==
  \/ /\ ~panicked
     /\ fut.inner # "NotListening"
     /\ \E p \in FutureTwitterStream_poll(fut, resp, now) :
          p.res = Err("TimedOut")
  \/ /\ ~panicked
     /\ stream.exists
     /\ TwitterStream_poll(stream, body, now).res = Err("TimedOut")

\* C21: with the timeout None no poll of the future or of the stream
\* returns the timeout, whatever the time; the timeout of a builder left
\* as it is made is 90 seconds; and the duration of the builder is the
\* duration of the timer of the connection and of the timer of the stream.
C21_ConfiguredTimeout ==
  /\ DefaultBuilder.timeout = <<90>>
  /\ builder.timeout = <<>> =>
       /\ ~MayTimeOut
       /\ Err("TimedOut") \notin futLog.errs
       /\ streamLog.last # Err("TimedOut")
       /\ ~fut.timeout.armed
       /\ ~stream.timeout.armed
  /\ (builder.timeout # <<>> /\ fut.inner = "Ok" /\ ~stream.exists) =>
       fut.timeout = Timeout_new(builder.timeout[1], 0)
  /\ (builder.timeout # <<>> /\ stream.exists) =>
       stream.timeout = Timeout_new(builder.timeout[1], streamLog.armedAt)

\* With the timeout None, a message is returned by a poll at the last
\* moment, from a chunk read then.
C21_Witness ==
  /\ builder.timeout = <<>>
  /\ now = MaxTime
  /\ streamLog.armedAt = MaxTime
  /\ streamLog.last.kind = "Item"

(***************************************************************************)
(* C22: one read and one timer                                             *)
(***************************************************************************)

\* The reads the session has outstanding: the response of the request
\* while the future has not returned it, and the read of the body while
\* the stream is open.
OutstandingReads ==
  (IF fut.inner = "Ok" /\ resp.state \in {"pending", "ready", "failed"}
     THEN 1 ELSE 0)
    + (IF stream.exists /\ ~stream.timed_out /\ ~stream.exhausted
         THEN 1 ELSE 0)

\* The timers armed: of the future and of the stream.
ArmedTimers ==
  (IF fut.timeout.armed THEN 1 ELSE 0)
    + (IF stream.timeout.armed THEN 1 ELSE 0)

\* A poll of the future returns the stream.
Resolving ==
  ~stream.exists /\ stream'.exists

\* C22: in every state of a session at most one read is outstanding and at
\* most one timer is armed; the poll that returns the stream moves the
\* timer of the connection, with its deadline, into the stream, and leaves
\* no timer armed in the future.
C22_OneReadOneTimer ==
  /\ [](OutstandingReads <= 1 /\ ArmedTimers <= 1)
  /\ [][Resolving =>
          /\ stream'.timeout = fut.timeout
          /\ ~fut'.timeout.armed
          /\ resp.state = "ready"
          /\ resp'.state = "taken"]_vars

\* The future has returned the stream, whose timer is armed, and the
\* body has a chunk to read.
C22_Witness ==
  /\ stream.exists
  /\ stream.timeout.armed
  /\ ~fut.timeout.armed
  /\ body.chunks # <<>>
  /\ OutstandingReads = 1

(***************************************************************************)
(* C23: the deadline of the stream                                         *)
(***************************************************************************)

\* A poll of the stream reads a chunk of the body.
ReadsChunk ==
  stream.exists /\ Len(body'.chunks) < Len(body.chunks)

\* The timer of the stream after a step that reads a chunk, and after any
\* other step of a session with a stream.
DeadlineFollowsReads ==
  stream.exists =>
    IF ReadsChunk
    THEN /\ builder.timeout # <<>> =>
              stream'.timeout = Timeout_new(builder.timeout[1], now)
         /\ builder.timeout = <<>> => ~stream'.timeout.armed
    ELSE stream'.timeout = stream.timeout

\* A poll of the stream made in this state returns the timeout.
StreamTimesOut ==
  /\ ~panicked
  /\ stream.exists
  /\ TwitterStream_poll(stream, body, now).res = Err("TimedOut")

\* C23: the deadline of the stream is set to the time of the read plus the
\* duration of the builder by each step that reads a chunk of the body, a
\* chunk of blank lines too, and is changed by no other step; so a poll
\* returns the timeout only when no chunk has arrived that is not read and
\* the whole duration has passed since the last read (since listen, when
\* no chunk has been read).
C23_DeadlineRearmedOnData ==
  /\ [][DeadlineFollowsReads]_vars
  /\ [](StreamTimesOut =>
          /\ body.chunks = <<>>
          /\ builder.timeout # <<>>
          /\ now >= streamLog.armedAt + builder.timeout[1])
  /\ [](stream.exists /\ builder.timeout # <<>> =>
          stream.timeout.deadline = streamLog.armedAt + builder.timeout[1])

\* With a timeout of one unit, a chunk of blank lines and then another
\* chunk have been read, the last at time 2 or later, and the stream has
\* not timed out.
C23_Witness ==
  /\ builder.timeout = <<1>>
  /\ stream.exists
  /\ ~stream.timed_out
  /\ Len(envLog.received) >= 2
  /\ envLog.received[1] = <<10, 32, 13, 10>>
  /\ body.chunks = <<>>
  /\ streamLog.armedAt >= 2
  /\ streamLog.last.kind \in {"Item", "NotReady"}

(***************************************************************************)
(* C24: lines and the buffer                                               *)
(***************************************************************************)

\* text ends with tail.
EndsWith(text, tail) ==
  /\ Len(tail) <= Len(text)
  /\ SubSeq(text, Len(text) - Len(tail) + 1, Len(text)) = tail

\* What follows the last newline of a text.
RECURSIVE Unterminated(_)
Unterminated(bytes) ==
  IF bytes = <<>> \/ bytes[Len(bytes)] = 10 THEN <<>>
  ELSE Append(Unterminated(SubSeq(bytes, 1, Len(bytes) - 1)),
              bytes[Len(bytes)])

\* C24: a line is returned only when its newline has been read.  While the
\* stream has not ended, the buffer is the end of the bytes read, what was
\* read before it is whole lines, and the polls have returned one item for
\* each of those lines that is no heartbeat, whole, however the chunks
\* divide it; when a poll has returned the end, the buffer is empty and
\* the polls have returned as many items as the body has lines that are
\* no heartbeat, so none for what followed its last newline.
C24_LinesByNewline ==
  /\ (stream.exists /\ ~stream.exhausted) =>
       /\ EndsWith(BytesRead, stream.buf)
       /\ Unterminated(BytesConsumed) = <<>>
  /\ stream.exists =>
       streamLog.delivered = ItemsOf(BytesConsumed)
  /\ stream.exhausted =>
       /\ stream.buf = <<>>
       /\ body.chunks = <<>>
       /\ Len(streamLog.delivered) = Len(MessageLines(Cat(envLog.received)))

\* The two bytes of one character have been received in two chunks, the
\* second with the newline, and then the first byte again; the body has
\* ended, and the polls have returned the character once and then the end.
C24_Witness ==
  /\ envLog.received = << <<195>>, <<169, 10>>, <<195>> >>
  /\ streamLog.delivered = << Result("Item", "", <<195, 169>>) >>
  /\ streamLog.last = Result("End", "", <<>>)
  /\ Unterminated(Cat(envLog.received)) = <<195>>
  /\ stream.buf = <<>>

(***************************************************************************)
(* C25: the failure of the request                                         *)
(***************************************************************************)

\* Error::Hyper with the error the request has failed with.
TransportError == Result("Err", "Hyper", <<resp.error>>)

\* The request has failed and the future has not been polled since.
RequestFailed == ~panicked /\ fut.inner = "Ok" /\ resp.state = "failed"

\* C25: when the request has failed, a poll of the future returns
\* Error::Hyper with the request's own error, whatever the time and the
\* deadline, and makes no stream; no other poll returns Error::Hyper;
\* after it no stream is ever made and no second request is sent.
C25_TransportError ==
  /\ [](RequestFailed =>
          \A p \in FutureTwitterStream_poll(fut, resp, now) :
            /\ p.res = TransportError
            /\ p.res.err \notin {"Http", "TimedOut", "Tls"}
            /\ p.stream = NoStream
            /\ p.resp = [resp EXCEPT !.state = "taken"])
  /\ [](~RequestFailed /\ ~panicked /\ fut.inner # "NotListening" =>
          \A p \in FutureTwitterStream_poll(fut, resp, now) :
            p.res.err # "Hyper")
  /\ [](\A e \in futLog.errs : e.err = "Hyper" =>
          /\ e = TransportError
          /\ resp.error \in HyperErrors
          /\ ~stream.exists
          /\ envLog.requests = 1)
  /\ [][resp.state = "failed" => resp'.error = resp.error /\ ~stream'.exists]_vars

\* The request has failed with the second error after the deadline of the
\* connection had passed, and the first poll after it has returned that
\* error, not the timeout.
C25_Witness ==
  /\ builder.timeout = <<1>>
  /\ now = 2
  /\ fut.timeout.armed
  /\ resp = [state |-> "taken", status |-> 0, error |-> 2]
  /\ futLog.first = Result("Err", "Hyper", <<2>>)
  /\ futLog.errs = {Result("Err", "Hyper", <<2>>)}
  /\ ~stream.exists

(***************************************************************************)
(* C26: the question mark                                                  *)
(***************************************************************************)

\* The signer was made in query mode: its outward text begins with the URI.
QueryMode == StartsWith(qb.query, UriToString(EndpointWithQuery))

\* What has been written to the outward text of a query-mode signer after
\* the URI it began with.
Appended(b) ==
  SubSeq(b.query, Len(UriToString(EndpointWithQuery)) + 1, Len(b.query))

\* The number of question marks in a text.
RECURSIVE QuestionMarks(_)
QuestionMarks(text) ==
  IF text = <<>> THEN 0
  ELSE (IF Head(text) = 63 THEN 1 ELSE 0) + QuestionMarks(Tail(text))

\* The calls made that write a parameter to the outward text.
OutwardCalls ==
  {i \in DOMAIN calls : calls[i].op \in {"append", "append_encoded"}}

\* A question mark is written at most once, and never by a form-mode
\* signer.
QuestionMarkOnce ==
  /\ QueryMode => QuestionMarks(Appended(qb)) <= 1
  /\ ~QueryMode => QuestionMarks(qb.query) = 0

\* C26: a query-mode signer writes a question mark at most once, and only
\* in a call that writes an outward parameter right after it, so that the
\* outward text has the question mark after the URI exactly when a
\* parameter follows it; a form-mode signer writes none.
C26_QuestionMarkBeforeParameter ==
  /\ [](QuestionMarkOnce)
  /\ [](QueryMode /\ ~qb.panicked =>
          /\ QuestionMarks(Appended(qb)) = 1 <=> OutwardCalls # {}
          /\ QuestionMarks(Appended(qb)) = 1 =>
               Appended(qb)[1] = 63 /\ Len(Appended(qb)) > 1)
  /\ [][QueryMode /\ QuestionMarks(Appended(qb')) > QuestionMarks(Appended(qb)) =>
          AcceptedCall("append") \/ AcceptedCall("append_encoded")]_vars

(***************************************************************************)
(* C27: DoublePercentEncode                                                *)
(***************************************************************************)

\* A text has been encoded.
TextEncoded == encoding.op = "text" /\ encoding.done

\* "%25" and the two uppercase hexadecimal digits of b.
EscapedTwice(b) ==
  LET hex == <<48, 49, 50, 51, 52, 53, 54, 55, 56, 57, 65, 66, 67, 68, 69, 70>>
  IN <<37, 50, 53, hex[(b \div 16) + 1], hex[(b % 16) + 1]>>

\* C27: for every text, what DoublePercentEncode writes is the
\* percent-encoding of the percent-encoding of the text, and is, byte after
\* byte of the text in its order, the byte itself when it is unreserved and
\* "%25" with its two hexadecimal digits when it is not.
C27_DoublePercentEncode ==
  TextEncoded =>
    /\ encoding.output.DoublePercentEncode =
         percent_encode(encoding.output.percent_encode)
    /\ encoding.output.DoublePercentEncode =
         Cat([i \in 1..Len(encoding.input) |->
                IF Unreserved(encoding.input[i])
                  THEN <<encoding.input[i]>>
                  ELSE EscapedTwice(encoding.input[i])])

\* "a", the byte 0xC3 and "~" have been encoded: a run, a byte to escape
\* and a run that ends the text, written as a%25C3~.
C27_Witness ==
  /\ TextEncoded
  /\ encoding.input = <<97, 195, 126>>
  /\ encoding.output.DoublePercentEncode = <<97, 37, 50, 53, 67, 51, 126>>

(***************************************************************************)
(* C28: the value signed and the value sent                                *)
(***************************************************************************)

\* Where sep begins in text.
SepStarts(text, sep) ==
  {i \in 1..(Len(text) - Len(sep) + 1) :
     text[i] = sep[1] /\ SubSeq(text, i, i + Len(sep) - 1) = sep}

\* The parts of text that sep divides, but the empty ones.
Parts(text, sep) ==
  LET seps == SepStarts(text, sep)
      ends == seps \cup {Len(text) + 1}
      start(p) ==
        LET before == {q \in seps : q < p}
        IN IF before = {} THEN 1
           ELSE (CHOOSE q \in before : \A r \in before : r <= q) + Len(sep)
  IN {SubSeq(text, start(p), p - 1) : p \in ends} \ {<<>>}

\* A part as a key and a value: what is before and after the first mid.
PairOf(part, mid) ==
  LET i == CHOOSE i \in SepStarts(part, mid) :
                    \A j \in SepStarts(part, mid) : i <= j
  IN [key |-> SubSeq(part, 1, i - 1),
      value |-> SubSeq(part, i + Len(mid), Len(part))]

\* The parameters of the text written to the HMAC, after METHOD&uri&.
MacPairs ==
  LET amp == SepStarts(qb.mac, <<38>>)
      last == CHOOSE q \in amp : \A r \in amp : r <= q
  IN {PairOf(p, <<37, 51, 68>>) :
        p \in Parts(SubSeq(qb.mac, last + 1, Len(qb.mac)), <<37, 50, 54>>)}

\* The parameters of the query of the URI, or of the body of a POST.
OutwardPairs ==
  {PairOf(p, <<61>>) : p \in Parts(OutwardParams(builder, request), <<38>>)}

\* The parameters of the Authorization header but the signature, each
\* value without its quotes.
HeaderPairs ==
  LET all == {PairOf(p, <<61>>) :
                p \in Parts(SubSeq(request.authorization, Len(S_OAuth) + 1,
                                   Len(request.authorization)), <<44>>)}
  IN {[key |-> p.key, value |-> SubSeq(p.value, 2, Len(p.value) - 1)] :
        p \in {a \in all : a.key # S_oauth_signature}}

\* C28: in a request built by connect, the HMAC has been given one value
\* for each key appended, a value has been sent for the same keys in the
\* query or body or in the header, and the value given to the HMAC is the
\* percent-encoding of the value sent under the same key, for the values
\* given already encoded too; the value sent is the setting's value
\* percent-encoded once, and "%25" is nowhere in what is sent.
C28_SignedIsEncodedSent ==
  request.sent =>
    LET sent == OutwardPairs \cup HeaderPairs
        signed == MacPairs
        params == RequestParams(builder)
                    \cup OAuthParams(builder, DrawOf(calls))
    IN /\ Cardinality(signed) = Len(KeysOf(calls))
       /\ Cardinality(sent) = Len(KeysOf(calls))
       /\ {m.key : m \in signed} = {s.key : s \in sent}
       /\ \A m \in signed : \A s \in sent :
            s.key = m.key => m.value = percent_encode(s.value)
       /\ \A s \in sent : \E r \in params :
            r.key = s.key /\ s.value = percent_encode(r.raw)
       /\ \A r \in params : ~OccursIn(<<37>>, r.raw)
       /\ ~OccursIn(<<37, 50, 53>>, OutwardParams(builder, request))
       /\ ~OccursIn(<<37, 50, 53>>, request.authorization)

\* A GET built to follow two ids, within two boxes and for a phrase with a
\* space: follow is 1%2C2 in the URI and 1%252C2 in the text signed, and
\* the phrase is %40T%20w and %2540T%2520w.
C28_Witness ==
  /\ request.sent
  /\ builder.method = S_GET
  /\ builder.locations # <<>> /\ Len(builder.locations[1]) = 2
  /\ builder.count # <<>>
  /\ [key |-> K_follow, value |-> <<49, 37, 50, 67, 50>>] \in OutwardPairs
  /\ [key |-> K_follow, value |-> <<49, 37, 50, 53, 50, 67, 50>>] \in MacPairs
  /\ [key |-> K_track,
      value |-> <<37, 52, 48, 84, 37, 50, 48, 119>>] \in OutwardPairs
  /\ [key |-> K_track,
      value |-> <<37, 50, 53, 52, 48, 84, 37, 50, 53, 50, 48, 119>>]
       \in MacPairs
  /\ [key |-> K_oauth_version, value |-> S_1_0] \in HeaderPairs

(***************************************************************************)
(* C29: the request connect builds                                         *)
(***************************************************************************)

\* The number a text of decimal digits writes.
RECURSIVE ParseNat(_)
ParseNat(digits) ==
  IF digits = <<>> THEN 0
  ELSE 10 * ParseNat(SubSeq(digits, 1, Len(digits) - 1))
         + (digits[Len(digits)] - 48)

\* C29: the request of a POST has the endpoint as its URI, the text the
\* signer has written as its body, the Content-Type of a form and a
\* Content-Length that writes the number of bytes of the body; the request
\* of another method has the signer's text, which begins with the
\* endpoint, as its URI, no body and neither header; the text signed
\* begins with the method of the request.
C29_ConnectRequest ==
  request.sent =>
    /\ request.method = builder.method
    /\ StartsWith(qb.mac, request.method \o <<38>>)
    /\ request.authorization = outcome.header
    /\ builder.method = S_POST =>
         /\ request.uri = UriToString(builder.endpoint)
         /\ request.body = qb.query
         /\ ~OccursIn(UriToString(builder.endpoint), request.body)
         /\ request.content_type = <<"application/x-www-form-urlencoded">>
         /\ Len(request.content_length) = 1
         /\ ParseNat(request.content_length[1]) = Len(request.body)
    /\ builder.method # S_POST =>
         /\ request.uri = qb.query
         /\ StartsWith(request.uri, UriToString(builder.endpoint))
         /\ request.body = <<>>
         /\ request.content_type = <<>>
         /\ request.content_length = <<>>

\* A POST for the phrase "@T w" alone: the body is track=%40T%20w and the
\* Content-Length is 14.
C29_Witness ==
  /\ request.sent
  /\ request.method = S_POST
  /\ request.uri = UriToString(EndpointPlain)
  /\ request.body = K_track \o <<61, 37, 52, 48, 84, 37, 50, 48, 119>>
  /\ request.content_length = << <<49, 52>> >>

(***************************************************************************)
(* C30: the response and the deadline ready together                       *)
(***************************************************************************)

\* The response, or the failure of the request, is there to be taken and
\* the deadline of the connection has been reached.
BothReady ==
  /\ ~panicked
  /\ fut.inner = "Ok"
  /\ resp.state \in {"ready", "failed"}
  /\ Timeout_poll(fut.timeout, now)

\* What a poll is to return for the response that is there.
ResultOfResponse ==
  CASE resp.state = "failed" -> Result("Err", "Hyper", <<resp.error>>)
    [] resp.status = StatusCode_OK -> Result("Stream", "", <<>>)
    [] OTHER -> Result("Err", "Http", <<resp.status>>)

\* C30: a poll of the future that finds the response and the deadline both
\* ready returns what the response gives, the stream, Error::Http or
\* Error::Hyper, and takes the response; a poll returns Error::TimedOut only
\* when the ResponseFuture has nothing ready, and leaves the response where
\* it is; and in the step of such a poll no timeout is added to the errors
\* returned and the stream is made exactly for the status 200.
C30_ResponseBeforeDeadline ==
  /\ [](BothReady =>
          \A p \in FutureTwitterStream_poll(fut, resp, now) :
            /\ p.res = ResultOfResponse
            /\ p.res # Err("TimedOut")
            /\ p.resp = [resp EXCEPT !.state = "taken"])
  /\ [](~panicked /\ fut.inner = "Ok" =>
          \A p \in FutureTwitterStream_poll(fut, resp, now) :
            p.res = Err("TimedOut") =>
              /\ resp.state \notin {"ready", "failed"}
              /\ NotReady \in {rp.res : rp \in ResponseFuture_poll(resp)}
              /\ Timeout_poll(fut.timeout, now)
              /\ p.resp = resp)
  /\ [][BothReady /\ resp'.state = "taken" =>
          /\ futLog'.errs \ futLog.errs \subseteq {ResultOfResponse}
          /\ stream'.exists <=>
               (resp.state = "ready" /\ resp.status = StatusCode_OK)]_vars

\* The response of status 200 arrived after the deadline of the connection
\* had passed, no poll was made between, and the first poll has made the
\* stream.
C30_Witness ==
  /\ builder.timeout = <<1>>
  /\ envLog.firedFirst
  /\ now = 2
  /\ resp = [state |-> "taken", status |-> 200, error |-> 0]
  /\ futLog.first = Result("Stream", "", <<>>)
  /\ futLog.errs = {}
  /\ stream.exists
  /\ stream.timeout = Timeout_new(1, 0)

(***************************************************************************)
(* C31: heartbeats passed over within one poll                             *)
(***************************************************************************)

\* The bytes a poll of the stream can reach without waiting: the buffer
\* and the chunks that wait to be read.
Available == stream.buf \o Cat(body.chunks)

\* The stream can be polled.
Pollable == ~panicked /\ StreamOpen

\* C31: a poll of the stream returns "not ready" only when the bytes at
\* hand hold no line but heartbeats, the body has not ended and the
\* deadline has not been reached, and then it has read every chunk and the
\* line source, polled again, is not ready either; when the bytes at hand
\* hold a line that is no heartbeat, the poll returns that line, as a
\* message or as the decoding error, however many heartbeats stand before
\* it; when they hold none and the body has ended, the poll returns the
\* end; and the step of a poll leaves the result the state before it gave.
C31_NotReadyOnlyIfSourceNotReady ==
  /\ [](Pollable =>
          LET p == TwitterStream_poll(stream, body, now)
          IN /\ p.res = NotReady =>
                  /\ MessageLines(Available) = <<>>
                  /\ ~body.ended
                  /\ ~Timeout_poll(p.stream.timeout, now)
                  /\ p.body.chunks = <<>>
                  /\ p.stream.buf = Unterminated(Available)
                  /\ Lines_poll(p.stream, p.body, now).res = NotReady
             /\ MessageLines(Available) # <<>> =>
                  /\ p.res = ItemsOf(Available)[1]
                  /\ p.res # NotReady
             /\ MessageLines(Available) = <<>> /\ body.ended =>
                  p.res = Result("End", "", <<>>)
             /\ p.res.kind \in {"NotReady", "Item", "Err", "End"})
  /\ [][Pollable /\ streamLog' # streamLog =>
          /\ streamLog'.last = TwitterStream_poll(stream, body, now).res
          /\ MessageLines(Available) # <<>> =>
               streamLog'.delivered =
                 Append(streamLog.delivered, ItemsOf(Available)[1])]_vars

\* Two chunks of two heartbeats each and then the line "a" have been
\* received, and the polls have returned one message, "a", and nothing
\* after it: the stream has read all and holds nothing.
C31_Witness ==
  /\ envLog.received = << <<10, 32, 13, 10>>, <<10, 32, 13, 10>>, <<97, 10>> >>
  /\ body.chunks = <<>>
  /\ stream.buf = <<>>
  /\ streamLog.last = Result("Item", "", <<97>>)
  /\ streamLog.delivered = << Result("Item", "", <<97>>) >>

====
